---- MODULE Spec2Model ----
(***************************************************************************)
(* NutriCoach: the daily nutrient aggregation, day index, weekly series    *)
(* and weight history of the client application, as a state machine.      *)
(*                                                                         *)
(* Time is counted in whole hours since 1970-01-01T00:00Z (a JS Date holds *)
(* milliseconds; nothing the model looks at is finer than an hour).        *)
(* A JS number is an IEEE-754 double; the nutrient quantities are held as  *)
(* fixed-point bit vectors and added with the double's rounding.           *)
(***************************************************************************)
EXTENDS Integers, Sequences, FiniteSets, TLC

(***************************************************************************)
(* Bounds of the model.                                                    *)
(***************************************************************************)
\* bits of one limb of a number
LimbBits == 14
\* limbs of a number
NumLimbs == 5
\* bits of a number below the binary point (at least 56, the last bit of 0.1)
FracBits == 56
\* the day the run starts, in days since 1970-01-01 (19812 is 2024-03-30)
StartDay == 19812
\* days after StartDay the application is followed for
MaxDay == 1
\* how many days back the dashboard is navigated
MaxBack == 1
\* meals logged in one run
MaxMeals == 2
\* meals saved in a run that follows the requests of the logger and of the advice
MaxLogged == 1
\* requests of one MealLogger in flight at a time
MaxInFlight == 2
\* camera requests, streams and detection loops of effects that were cleaned
\* up, counted up to this number
MaxLate == 1
\* turns of one conversation with the coach
MaxTurns == 3
\* meals handed to one aggregation
MaxAggMeals == 3

(***************************************************************************)
(* JS numbers.  A `number` is an IEEE-754 double.  The model holds the     *)
(* non-negative doubles below 2^(NumLimbs*LimbBits-FracBits) whose last    *)
(* set bit is 2^-FracBits or above, as the integer N = value * 2^FracBits  *)
(* written in limbs of LimbBits bits, least significant limb first.        *)
(***************************************************************************)
\* significand bits of an IEEE-754 double
MantissaBits == 53

RECURSIVE Pow2(_)
Pow2(n) == IF n <= 0 THEN 1 ELSE 2 * Pow2(n - 1)

LimbBase == Pow2(LimbBits)

NumBits == NumLimbs * LimbBits

RECURSIVE Zeros(_)
Zeros(n) == IF n <= 0 THEN <<>> ELSE <<0>> \o Zeros(n - 1)

NumZero == Zeros(NumLimbs)

\* bit k (0 = the bit of weight 2^-FracBits) of the number v
BitAt(v, k) == (v[(k \div LimbBits) + 1] \div Pow2(k % LimbBits)) % 2

\* the number whose bit k is bit(k)
RECURSIVE LimbOf(_, _, _)
LimbOf(bit(_), k, n) ==
  IF n = 0 THEN 0 ELSE bit(k) + 2 * LimbOf(bit, k + 1, n - 1)

RECURSIVE LimbsFrom(_, _)
LimbsFrom(bit(_), i) ==
  IF i > NumLimbs THEN <<>>
  ELSE <<LimbOf(bit, (i - 1) * LimbBits, LimbBits)>> \o LimbsFrom(bit, i + 1)

\* the double with the integer value n (0 <= n < 2^31)
FromInt(n) ==
  LET bit(k) == IF k < FracBits \/ k - FracBits > 30 THEN 0
                ELSE (n \div Pow2(k - FracBits)) % 2
  IN LimbsFrom(bit, 1)

\* the double with significand hex digits `hex` (most significant first) whose
\* last significand bit has weight 2^lsbExp
FromHex(hex, lsbExp) ==
  LET nb == 4 * Len(hex)
      shift == FracBits + lsbExp
      bit(k) == IF k - shift < 0 \/ k - shift >= nb THEN 0
                ELSE (hex[Len(hex) - ((k - shift) \div 4)] \div Pow2((k - shift) % 4)) % 2
  IN LimbsFrom(bit, 1)

\* exact sum of two numbers, limb by limb with carry
RECURSIVE AddFrom(_, _, _, _)
AddFrom(a, b, i, carry) ==
  IF i > NumLimbs THEN <<>>
  ELSE LET s == a[i] + b[i] + carry
       IN <<s % LimbBase>> \o AddFrom(a, b, i + 1, s \div LimbBase)

AddExact(a, b) == AddFrom(a, b, 1, 0)

\* number of bits of the integer x, 0 for zero
RECURSIVE IntBitLen(_)
IntBitLen(x) == IF x = 0 THEN 0 ELSE 1 + IntBitLen(x \div 2)

\* number of bits up to and including the highest set bit, 0 for zero
BitLen(v) ==
  LET S == {i \in 1..NumLimbs : v[i] # 0}
  IN IF S = {} THEN 0
     ELSE LET top == CHOOSE i \in S : \A j \in S : j <= i
          IN (top - 1) * LimbBits + IntBitLen(v[top])

\* the bits below bit `drop` are all zero
LowZero(v, drop) ==
  /\ \A i \in 1..(drop \div LimbBits) : v[i] = 0
  /\ drop % LimbBits # 0 => v[(drop \div LimbBits) + 1] % Pow2(drop % LimbBits) = 0

\* round to MantissaBits significant bits, ties to even
RoundDouble(v) ==
  LET drop == BitLen(v) - MantissaBits
  IN IF drop <= 0 THEN v
     ELSE IF LowZero(v, drop) THEN v
     ELSE LET guard == BitAt(v, drop - 1)
              sticky == ~LowZero(v, drop - 1)
              up == guard = 1 /\ (sticky \/ BitAt(v, drop) = 1)
              keptBit(k) == IF k < drop THEN 0 ELSE BitAt(v, k)
              ulpBit(k) == IF k = drop THEN 1 ELSE 0
              kept == LimbsFrom(keptBit, 1)
          IN IF up THEN AddExact(kept, LimbsFrom(ulpBit, 1)) ELSE kept

\* a + b on JS numbers
JsAdd(a, b) == RoundDouble(AddExact(a, b))

\* a * m for a number a of any length and one limb m: one limb longer than a
RECURSIVE MulLimbFrom(_, _, _, _)
MulLimbFrom(a, m, i, carry) ==
  IF i > Len(a) THEN <<carry>>
  ELSE LET p == a[i] * m + carry
       IN <<p % LimbBase>> \o MulLimbFrom(a, m, i + 1, p \div LimbBase)

\* exact sum of two numbers of the same length, any length
RECURSIVE WideAddFrom(_, _, _, _)
WideAddFrom(a, b, i, carry) ==
  IF i > Len(a) THEN <<>>
  ELSE LET s == a[i] + b[i] + carry
       IN <<s % LimbBase>> \o WideAddFrom(a, b, i + 1, s \div LimbBase)

\* the rows j, j+1, .. of the long multiplication of a by b, summed
RECURSIVE MulRows(_, _, _)
MulRows(a, b, j) ==
  IF j > Len(b) THEN Zeros(Len(a) + Len(b))
  ELSE WideAddFrom(Zeros(j - 1) \o MulLimbFrom(a, b[j], 1, 0) \o Zeros(Len(b) - j),
                   MulRows(a, b, j + 1), 1, 0)

\* exact product of two numbers: 2*NumLimbs limbs, 2*FracBits bits below the point
MulExact(a, b) == MulRows(a, b, 1)

\* limb j of a number of any length, 0 outside it
LimbAt(v, j) == IF j < 1 \/ j > Len(v) THEN 0 ELSE v[j]

\* the limbs i..n of the number v shifted down by `shift` bits (up, if negative)
RECURSIVE ShiftedLimbs(_, _, _, _)
ShiftedLimbs(v, shift, i, n) ==
  IF i > n THEN <<>>
  ELSE LET q == shift \div LimbBits
           r == shift % LimbBits
       IN <<(LimbAt(v, i + q) \div Pow2(r))
             + (LimbAt(v, i + q + 1) % Pow2(r)) * Pow2(LimbBits - r)>>
          \o ShiftedLimbs(v, shift, i + 1, n)

WideBitLen(v) ==
  LET S == {i \in 1..Len(v) : v[i] # 0}
  IN IF S = {} THEN 0
     ELSE LET top == CHOOSE i \in S : \A j \in S : j <= i
          IN (top - 1) * LimbBits + IntBitLen(v[top])

\* a number of any length rounded to MantissaBits significant bits, ties to even
WideRound(v) ==
  LET drop == WideBitLen(v) - MantissaBits
  IN IF drop <= 0 THEN v
     ELSE IF LowZero(v, drop) THEN v
     ELSE LET guard == BitAt(v, drop - 1)
              sticky == ~LowZero(v, drop - 1)
              up == guard = 1 /\ (sticky \/ BitAt(v, drop) = 1)
              \* the bits from bit drop on, as a number of units 2^drop
              kept == ShiftedLimbs(v, drop, 1, Len(v))
              one == <<1>> \o Zeros(Len(v) - 1)
              rounded == IF up THEN WideAddFrom(kept, one, 1, 0) ELSE kept
          IN ShiftedLimbs(rounded, 0 - drop, 1, Len(v))

\* the value e once the operands a and b are evaluated: JS evaluates the
\* operands of an operator before it applies the operator
Operands(a, b, e) == CASE Len(a) + Len(b) >= 0 -> e

\* a * b on JS numbers (the product is 0 or at least 2^(MantissaBits - 1 - FracBits))
JsMul(a, b) ==
  Operands(a, b,
    LET product == MulExact(a, b)
    IN Operands(product, product,
         LET rounded == WideRound(product)
         IN Operands(rounded, rounded, ShiftedLimbs(rounded, FracBits, 1, NumLimbs))))

\* exact difference a - b of two numbers, a >= b
RECURSIVE SubFrom(_, _, _, _)
SubFrom(a, b, i, borrow) ==
  IF i > Len(a) THEN <<>>
  ELSE LET d == a[i] - b[i] - borrow
       IN <<(d + LimbBase) % LimbBase>> \o SubFrom(a, b, i + 1, IF d < 0 THEN 1 ELSE 0)

\* a - b on JS numbers, a >= b
JsSub(a, b) ==
  Operands(a, b,
    LET difference == SubFrom(a, b, 1, 0)
    IN Operands(difference, difference, RoundDouble(difference)))

\* long division of a number by a small integer d, from limb i down: the
\* quotient's limbs and the remainder
RECURSIVE DivFrom(_, _, _, _)
DivFrom(v, d, i, rem) ==
  IF i = 0 THEN [q |-> <<>>, r |-> rem]
  ELSE LET cur == rem * LimbBase + v[i]
           rest == DivFrom(v, d, i - 1, cur % d)
       IN [q |-> Append(rest.q, cur \div d), r |-> rest.r]

\* a / d on JS numbers for a small integer d: the quotient is taken two limbs
\* further down and a remainder left over is kept as one more set bit below
JsDiv(a, d) ==
  Operands(a, a,
    LET res == DivFrom(Zeros(2) \o a, d, Len(a) + 2, 0)
        q == IF res.r = 0 \/ res.q[1] % 2 = 1 THEN res.q
             ELSE <<res.q[1] + 1>> \o Tail(res.q)
    IN Operands(q, q,
         LET rounded == WideRound(q)
         IN Operands(rounded, rounded, ShiftedLimbs(rounded, 2 * LimbBits, 1, NumLimbs))))

\* the integer part of a number
RECURSIVE IntPartFrom(_, _)
IntPartFrom(v, k) ==
  IF k >= NumBits THEN 0
  ELSE (IF BitAt(v, k) = 0 THEN 0 ELSE Pow2(k - FracBits)) + IntPartFrom(v, k + 1)

\* mutant of MathRound: Math.floor
MathFloor(x) == IntPartFrom(x, FracBits)

\* Math.round(x) of a number x >= 0: the integer nearest x, a half goes up
MathRound(x) ==
  LET half(k) == IF k = FracBits - 1 THEN 1 ELSE 0
      sum == AddExact(x, LimbsFrom(half, 1))
  IN Operands(x, sum, IntPartFrom(sum, FracBits))

(***************************************************************************)
(* JS Date.  An instant is a number of hours since 1970-01-01T00:00Z.      *)
(* A time zone is [std, dst, dstAt]: the offset from UTC in hours is std   *)
(* before the instant dstAt and dst from it on (std = dst: no change).     *)
(***************************************************************************)
\* the proleptic Gregorian date of day z (days since 1970-01-01), m in 1..12
CivilFromDays(z) ==
  LET zz == z + 719468
      era == zz \div 146097
      doe == zz - era * 146097
      yoe == (doe - (doe \div 1460) + (doe \div 36524) - (doe \div 146096)) \div 365
      doy == doe - (365 * yoe + (yoe \div 4) - (yoe \div 100))
      mp == (5 * doy + 2) \div 153
      d == doy - ((153 * mp + 2) \div 5) + 1
      m == IF mp < 10 THEN mp + 3 ELSE mp - 9
      y == yoe + era * 400 + (IF m <= 2 THEN 1 ELSE 0)
  IN [y |-> y, m |-> m, d |-> d]

\* days since 1970-01-01 of the date y-m-d
DaysFromCivil(y, m, d) ==
  LET yy == IF m <= 2 THEN y - 1 ELSE y
      era == yy \div 400
      yoe == yy - era * 400
      mp == IF m > 2 THEN m - 3 ELSE m + 9
      doy == ((153 * mp + 2) \div 5) + d - 1
      doe == yoe * 365 + (yoe \div 4) - (yoe \div 100) + doy
  IN era * 146097 + doe - 719468

UtcOffset(tz, t) == IF t >= tz.dstAt THEN tz.dst ELSE tz.std

\* the local wall-clock reading of instant t, in hours
LocalHours(tz, t) == t + UtcOffset(tz, t)

LocalDay(tz, t) == LocalHours(tz, t) \div 24

\* Date.prototype.getFullYear / getMonth / getDate / getHours (local time)
getFullYear(tz, t) == CivilFromDays(LocalDay(tz, t)).y

getMonth(tz, t) == CivilFromDays(LocalDay(tz, t)).m - 1

getDate(tz, t) == CivilFromDays(LocalDay(tz, t)).d

getHours(tz, t) == LocalHours(tz, t) % 24

\* the instant whose local wall-clock reading is lh; a reading the change of
\* offset skips is taken with the offset before the change
LocalToUtc(tz, lh) ==
  LET u1 == lh - tz.std
      u2 == lh - tz.dst
  IN IF u1 < tz.dstAt THEN u1 ELSE IF u2 >= tz.dstAt THEN u2 ELSE u1

\* Date.prototype.setDate(n): day n of the local month of t (n below 1 or past
\* the month's end runs into the neighbouring months), local time of day kept
setDate(tz, t, n) ==
  LET firstOfMonth == LocalDay(tz, t) - (getDate(tz, t) - 1)
  IN LocalToUtc(tz, (firstOfMonth + n - 1) * 24 + getHours(tz, t))

\* Date.prototype.toISOString(): "YYYY-MM-DDTHH:..Z" as its fields <<Y, M, D, H>>
toISOString(t) ==
  LET c == CivilFromDays(t \div 24) IN <<c.y, c.m, c.d, t % 24>>

\* s.split('T')[0]: the "YYYY-MM-DD" part
DatePart(s) == SubSeq(s, 1, 3)

\* new Date(s).getTime() for an ISO string: a date alone is midnight UTC
DateParse(s) ==
  DaysFromCivil(s[1], s[2], s[3]) * 24 + (IF Len(s) > 3 THEN s[4] ELSE 0)

\* toLocaleDateString('it-IT', {weekday: 'short'}).slice(0, 3)
WeekdayLabel(tz, t) ==
  <<"dom", "lun", "mar", "mer", "gio", "ven", "sab">>[((LocalDay(tz, t) + 4) % 7) + 1]

(***************************************************************************)
(* The day index: meals of a calendar day.                                 *)
(***************************************************************************)
\* mutant of isSameDay: the days compared are those of toISOString (UTC)
isSameDayByIsoDate(tz, date1, date2) ==
  DatePart(toISOString(date1)) = DatePart(toISOString(date2))

isSameDay(tz, date1, date2) ==
  /\ getFullYear(tz, date1) = getFullYear(tz, date2)
  /\ getMonth(tz, date1) = getMonth(tz, date2)
  /\ getDate(tz, date1) = getDate(tz, date2)

\* meals.filter(meal => isSameDay(new Date(meal.timestamp), day))
MealsOnDay(tz, ms, day) ==
  SelectSeq(ms, LAMBDA meal : isSameDay(tz, DateParse(meal.timestamp), day))

(***************************************************************************)
(* The nutrient aggregation of a list of meals.  A micronutrient name is a *)
(* sequence of characters.  The optional field micronutrienti of Nutrients *)
(* is a field the record has or has not.                                   *)
(***************************************************************************)
UpperChars == <<"A", "C", "E", "F", "I", "N", "O", "R", "Z">>

LowerChars == <<"a", "c", "e", "f", "i", "n", "o", "r", "z">>

\* String.prototype.toLowerCase, character by character
LowerChar(ch) ==
  IF \E k \in 1..Len(UpperChars) : UpperChars[k] = ch
  THEN LowerChars[CHOOSE k \in 1..Len(UpperChars) : UpperChars[k] = ch]
  ELSE ch

RECURSIVE toLowerCase(_)
toLowerCase(str) ==
  IF str = <<>> THEN <<>> ELSE <<LowerChar(Head(str))>> \o toLowerCase(Tail(str))

HasMicro(n) == "micronutrienti" \in DOMAIN n

\* JS values that are not numbers: undefined (what reading a property the
\* object lacks gives; a record of the model holds it as the field's value),
\* NaN, and a string (any string: the characters are not modelled)
Undefined == <<"undefined">>

NaN == <<"NaN">>

AString == <<"string">>

IsNumber(v) == Len(v) = NumLimbs

\* a + b of JS: the sum of two numbers; a string when either is a string
\* (concatenation); NaN when either is undefined or NaN
JsPlus(a, b) ==
  IF IsNumber(a) /\ IsNumber(b) THEN JsAdd(a, b)
  ELSE IF a = AString \/ b = AString THEN AString
  ELSE NaN

\* mutant of ZeroNutrients: the accumulator starts without a micronutrient list
ZeroNutrientsNoList ==
  [calorie |-> NumZero, proteine |-> NumZero, carboidrati |-> NumZero,
   grassi |-> NumZero]

\* the accumulator the reduce starts from
ZeroNutrients ==
  [calorie |-> NumZero, proteine |-> NumZero, carboidrati |-> NumZero,
   grassi |-> NumZero, micronutrienti |-> <<>>]

\* mutant of FindMicro: the names are compared as they are written
FindMicroCaseSensitive(list, micro) ==
  LET S == {k \in 1..Len(list) : list[k].nome = micro.nome}
  IN IF S = {} THEN 0 ELSE CHOOSE k \in S : \A j \in S : k <= j

\* acc.micronutrienti.find(m => m.nome.toLowerCase() === micro.nome.toLowerCase())
FindMicro(list, micro) ==
  LET S == {k \in 1..Len(list) : toLowerCase(list[k].nome) = toLowerCase(micro.nome)}
  IN IF S = {} THEN 0 ELSE CHOOSE k \in S : \A j \in S : k <= j

\* one step of the forEach over a meal's micronutrients
MergeMicro(list, micro) ==
  LET k == FindMicro(list, micro)
  IN IF k > 0
     THEN [list EXCEPT ![k].quantita = JsPlus(list[k].quantita, micro.quantita)]
     ELSE Append(list, micro)

RECURSIVE MergeAll(_, _)
MergeAll(list, micros) ==
  IF micros = <<>> THEN list
  ELSE MergeAll(MergeMicro(list, Head(micros)), Tail(micros))

\* mutant of ReduceStep: the fat total accumulates the meal's carbohydrates
ReduceStepFatFromCarbs(acc, meal) ==
  [acc EXCEPT !.calorie = JsPlus(acc.calorie, meal.nutrients.calorie),
              !.proteine = JsPlus(acc.proteine, meal.nutrients.proteine),
              !.carboidrati = JsPlus(acc.carboidrati, meal.nutrients.carboidrati),
              !.grassi = JsPlus(acc.grassi, meal.nutrients.carboidrati)]

\* the reducer: the accumulator after one more meal
ReduceStep(acc, meal) ==
  LET n == meal.nutrients
      sums == [calorie |-> JsPlus(acc.calorie, n.calorie),
               proteine |-> JsPlus(acc.proteine, n.proteine),
               carboidrati |-> JsPlus(acc.carboidrati, n.carboidrati),
               grassi |-> JsPlus(acc.grassi, n.grassi)]
      accList == IF HasMicro(acc) THEN acc.micronutrienti ELSE <<>>
  IN IF HasMicro(n)
     THEN [calorie |-> sums.calorie, proteine |-> sums.proteine,
           carboidrati |-> sums.carboidrati, grassi |-> sums.grassi,
           micronutrienti |-> MergeAll(accList, n.micronutrienti)]
     ELSE IF HasMicro(acc)
     THEN [calorie |-> sums.calorie, proteine |-> sums.proteine,
           carboidrati |-> sums.carboidrati, grassi |-> sums.grassi,
           micronutrienti |-> acc.micronutrienti]
     ELSE sums

RECURSIVE Reduce(_, _)
Reduce(acc, ms) ==
  IF ms = <<>> THEN acc ELSE Reduce(ReduceStep(acc, Head(ms)), Tail(ms))

\* mealsForSelectedDay.reduce(..., {calorie: 0, ..., micronutrienti: []})
TotalIntake(ms) == Reduce(ZeroNutrients, ms)

(***************************************************************************)
(* The same forEach on objects: a heap is the sequence of the micronutrient *)
(* objects there are, a reference is a position in it.  The objects of the *)
(* meals come first, in the order the reducer visits them; acc is the list *)
(* of references acc.micronutrienti holds.                                 *)
(***************************************************************************)
RECURSIVE MicroObjects(_)
MicroObjects(ms) ==
  IF ms = <<>> THEN <<>>
  ELSE (IF HasMicro(Head(ms).nutrients) THEN Head(ms).nutrients.micronutrienti ELSE <<>>)
       \o MicroObjects(Tail(ms))

\* acc.micronutrienti.find(...) on references: 0 for undefined
FindObject(heap, acc, micro) ==
  LET S == {k \in 1..Len(acc) : toLowerCase(heap[acc[k]].nome) = toLowerCase(micro.nome)}
  IN IF S = {} THEN 0 ELSE CHOOSE k \in S : \A j \in S : k <= j

\* mutant of VisitMicro: push(micro), the meal's own object, not a copy of it
VisitMicroPushSame(st, r) ==
  LET micro == st.heap[r]
      k == FindObject(st.heap, st.acc, micro)
  IN IF k > 0
     THEN [st EXCEPT !.heap[st.acc[k]].quantita = JsPlus(@, micro.quantita)]
     ELSE [st EXCEPT !.acc = Append(@, r)]

\* one step of the forEach on the object r of a meal: existingMicro.quantita
\* += micro.quantita writes the object found, push({ ...micro }) makes a new one
VisitMicro(st, r) ==
  LET micro == st.heap[r]
      k == FindObject(st.heap, st.acc, micro)
  IN IF k > 0
     THEN [st EXCEPT !.heap[st.acc[k]].quantita = JsPlus(@, micro.quantita)]
     ELSE [heap |-> Append(st.heap, micro), acc |-> Append(st.acc, Len(st.heap) + 1)]

RECURSIVE VisitFrom(_, _, _)
VisitFrom(st, r, count) ==
  IF r > count THEN st ELSE VisitFrom(VisitMicro(st, r), r + 1, count)

\* one run of the reducer over the first count objects of the heap, the
\* objects of the meals, with a new accumulator
AggregateObjects(heap, count) == VisitFrom([heap |-> heap, acc |-> <<>>], 1, count)

\* the micronutrient list the run returns
TotalsOf(st) == [k \in 1..Len(st.acc) |-> st.heap[st.acc[k]]]

(***************************************************************************)
(* The weekly calorie series.  The object `data` is the sequence of its    *)
(* <<key, value>> pairs in insertion order, which is the order Object.keys *)
(* gives for keys that are not integers.                                   *)
(***************************************************************************)
KeyIndex(data, key) ==
  LET S == {k \in 1..Len(data) : data[k][1] = key}
  IN IF S = {} THEN 0 ELSE CHOOSE k \in S : TRUE

\* data[key] = value
PutKey(data, key, value) ==
  IF KeyIndex(data, key) > 0
  THEN [data EXCEPT ![KeyIndex(data, key)] = <<key, value>>]
  ELSE Append(data, <<key, value>>)

\* the date of the loop's round i: today with its day of month moved back by i
WeekDate(tz, today, i) == setDate(tz, today, getDate(tz, today) - i)

\* the first loop, rounds i, i-1, .. 0, on the data built so far
RECURSIVE WeekKeys(_, _, _, _)
WeekKeys(tz, today, i, data) ==
  IF i < 0 THEN data
  ELSE WeekKeys(tz, today, i - 1,
                PutKey(data, DatePart(toISOString(WeekDate(tz, today, i))), NumZero))

RECURSIVE WeekLabels(_, _, _)
WeekLabels(tz, today, i) ==
  IF i < 0 THEN <<>>
  ELSE <<WeekdayLabel(tz, WeekDate(tz, today, i))>> \o WeekLabels(tz, today, i - 1)

\* meals.forEach: a meal whose UTC date is a key adds its calories there
RECURSIVE WeekAdd(_, _)
WeekAdd(data, ms) ==
  IF ms = <<>> THEN data
  ELSE LET meal == Head(ms)
           mealDate == DatePart(toISOString(DateParse(meal.timestamp)))
           k == KeyIndex(data, mealDate)
       IN WeekAdd(IF k > 0
                  THEN [data EXCEPT ![k] = <<mealDate, JsPlus(data[k][2], meal.nutrients.calorie)>>]
                  ELSE data,
                  Tail(ms))

\* WeeklyCalorieChart.weeklyData for the meals ms at the instant today
WeeklyData(tz, ms, today) ==
  LET data == WeekAdd(WeekKeys(tz, today, 6, <<>>), ms)
      labels == WeekLabels(tz, today, 6)
  IN [index \in 1..Len(data) |-> [day |-> labels[index], calories |-> data[index][2]]]

(***************************************************************************)
(* The weight history.                                                     *)
(***************************************************************************)
\* the position entry goes to in the sorted list: after the entries not later
RECURSIVE InsertSorted(_, _)
InsertSorted(sorted, entry) ==
  IF sorted = <<>> THEN <<entry>>
  ELSE IF DateParse(Head(sorted).date) - DateParse(entry.date) > 0
       THEN <<entry>> \o sorted
       ELSE <<Head(sorted)>> \o InsertSorted(Tail(sorted), entry)

\* mutant of SortByDate: the comparator's operands swapped (b - a)
RECURSIVE InsertSortedDescending(_, _)
InsertSortedDescending(sorted, entry) ==
  IF sorted = <<>> THEN <<entry>>
  ELSE IF DateParse(entry.date) - DateParse(Head(sorted).date) > 0
       THEN <<entry>> \o sorted
       ELSE <<Head(sorted)>> \o InsertSortedDescending(Tail(sorted), entry)

RECURSIVE SortByDateDescending(_)
SortByDateDescending(list) ==
  IF list = <<>> THEN <<>>
  ELSE InsertSortedDescending(SortByDateDescending(SubSeq(list, 1, Len(list) - 1)),
                              list[Len(list)])

\* list.sort((a, b) => new Date(a.date).getTime() - new Date(b.date).getTime()),
\* a stable sort
RECURSIVE SortByDate(_)
SortByDate(list) ==
  IF list = <<>> THEN <<>>
  ELSE InsertSorted(SortByDate(SubSeq(list, 1, Len(list) - 1)), list[Len(list)])

\* prev.findIndex(entry => entry.date === date), 0 for none
FindDate(prev, date) ==
  LET S == {k \in 1..Len(prev) : prev[k].date = date}
  IN IF S = {} THEN 0 ELSE CHOOSE k \in S : \A j \in S : k <= j

\* App.handleAddMeal: [...prevMeals, newMeal]
handleAddMeal(prevMeals, newMeal) == Append(prevMeals, newMeal)

\* mutant of handleDeleteMeal: the meals logged at the instant of the meal
\* with that id are dropped
handleDeleteMealByTimestamp(prevMeals, mealId) ==
  SelectSeq(prevMeals, LAMBDA meal : meal.timestamp # mealId[1])

\* App.handleDeleteMeal: prevMeals.filter(meal => meal.id !== mealId)
handleDeleteMeal(prevMeals, mealId) ==
  SelectSeq(prevMeals, LAMBDA meal : meal.id # mealId)

\* mutant of handleAddWeight: no look-up of today's entry, always appended
handleAddWeightAppendOnly(prev, t, newWeight) ==
  SortByDate(Append(prev, [date |-> DatePart(toISOString(t)), weight |-> newWeight]))

\* App.handleAddWeight: the weight history after newWeight is added at instant t
handleAddWeight(prev, t, newWeight) ==
  LET newEntry == [date |-> DatePart(toISOString(t)), weight |-> newWeight]
      todayIndex == FindDate(prev, newEntry.date)
  IN IF todayIndex > 0
     THEN [prev EXCEPT ![todayIndex] = newEntry]
     ELSE SortByDate(Append(prev, newEntry))

\* mutant of latestWeight: the first entry instead of the last
latestWeightOfFirst(history, initialWeight) ==
  IF Len(history) > 0 THEN history[1].weight ELSE initialWeight

\* WeightHistoryChart.latestWeight
latestWeight(history, initialWeight) ==
  IF Len(history) > 0 THEN history[Len(history)].weight ELSE initialWeight

(***************************************************************************)
(* The daily goals.  The goal computation is written twice in the source,  *)
(* in the onboarding wizard and in the profile view; both are modelled.    *)
(* The age, height and weight of a profile are whole numbers here; a field *)
(* left empty reads as 0 (Number('') is 0).  The decimal constants are the *)
(* doubles nearest them.                                                   *)
(***************************************************************************)
\* the doubles nearest the decimal constants of the goal computation
\* 88.362
Dec88_362 == FromHex(<<1, 6, 1, 7, 2, 11, 0, 2, 0, 12, 4, 9, 11, 10>>, 0 - 46)

\* 13.397
Dec13_397 == FromHex(<<1, 10, 12, 11, 4, 3, 9, 5, 8, 1, 0, 6, 2, 5>>, 0 - 49)

\* 4.799
Dec4_799 == FromHex(<<1, 3, 3, 2, 2, 13, 0, 14, 5, 6, 0, 4, 1, 9>>, 0 - 50)

\* 5.677
Dec5_677 == FromHex(<<1, 6, 11, 5, 3, 15, 7, 12, 14, 13, 9, 1, 6, 8>>, 0 - 50)

\* 447.593
Dec447_593 == FromHex(<<1, 11, 15, 9, 7, 12, 14, 13, 9, 1, 6, 8, 7, 3>>, 0 - 44)

\* 9.247
Dec9_247 == FromHex(<<1, 2, 7, 14, 7, 6, 12, 8, 11, 4, 3, 9, 5, 8>>, 0 - 49)

\* 3.098
Dec3_098 == FromHex(<<1, 8, 12, 8, 11, 4, 3, 9, 5, 8, 1, 0, 6, 2>>, 0 - 51)

\* 4.330
Dec4_330 == FromHex(<<1, 1, 5, 1, 14, 11, 8, 5, 1, 14, 11, 8, 5, 2>>, 0 - 50)

\* 0.30
Dec0_30 == FromHex(<<1, 3, 3, 3, 3, 3, 3, 3, 3, 3, 3, 3, 3, 3>>, 0 - 54)

\* 0.25
Dec0_25 == FromHex(<<1, 0, 0, 0, 0, 0, 0, 0, 0, 0, 0, 0, 0, 0>>, 0 - 54)

\* 0.45
Dec0_45 == FromHex(<<1, 12, 12, 12, 12, 12, 12, 12, 12, 12, 12, 12, 12, 13>>, 0 - 54)

\* mutant of Num500
Num50 == FromInt(50)

Num500 == FromInt(500)

\* OnboardingWizard calculateTDEE.multipliers: 1.2, 1.375, 1.55, 1.725, 1.9
multipliers ==
  [sedentario |-> FromHex(<<1, 3, 3, 3, 3, 3, 3, 3, 3, 3, 3, 3, 3, 3>>, 0 - 52),
   leggero |-> FromHex(<<1, 6, 0, 0, 0, 0, 0, 0, 0, 0, 0, 0, 0, 0>>, 0 - 52),
   moderato |-> FromHex(<<1, 8, 12, 12, 12, 12, 12, 12, 12, 12, 12, 12, 12, 13>>, 0 - 52),
   attivo |-> FromHex(<<1, 11, 9, 9, 9, 9, 9, 9, 9, 9, 9, 9, 9, 10>>, 0 - 52),
   molto_attivo |-> FromHex(<<1, 14, 6, 6, 6, 6, 6, 6, 6, 6, 6, 6, 6, 6>>, 0 - 52)]

\* OnboardingWizard calculateBMR: the Harris-Benedict estimate, added left to right
calculateBMR(profile) ==
  IF profile.gender = "maschio"
  THEN JsSub(JsAdd(JsAdd(Dec88_362,
                         JsMul(Dec13_397,
                               FromInt(profile.initialWeight))),
                   JsMul(Dec4_799,
                         FromInt(profile.height))),
             JsMul(Dec5_677,
                   FromInt(profile.age)))
  ELSE JsSub(JsAdd(JsAdd(Dec447_593,
                         JsMul(Dec9_247,
                               FromInt(profile.initialWeight))),
                   JsMul(Dec3_098,
                         FromInt(profile.height))),
             JsMul(Dec4_330,
                   FromInt(profile.age)))

\* mutant of calculateTDEE: the activity level is not applied
calculateTDEEUnscaled(bmr, activityLevel) == bmr

\* OnboardingWizard calculateTDEE
calculateTDEE(bmr, activityLevel) ==
  JsMul(bmr, multipliers[activityLevel])

\* mutant of micronutrientGoals: the iron target of a male profile for everyone
micronutrientGoalsIronEight(profile) ==
  << [nome |-> "Calcio", quantita |-> 1000, unita |-> "mg"],
     [nome |-> "Ferro", quantita |-> 8, unita |-> "mg"],
     [nome |-> "Potassio", quantita |-> 3500, unita |-> "mg"],
     [nome |-> "Sodio", quantita |-> 2300, unita |-> "mg"],
     [nome |-> "Vitamina C", quantita |-> 90, unita |-> "mg"],
     [nome |-> "Vitamina A", quantita |-> 900, unita |-> "mcg"],
     [nome |-> "Vitamina D", quantita |-> 15, unita |-> "mcg"] >>

\* OnboardingWizard calculateDailyGoals.micronutrientGoals
micronutrientGoals(profile) ==
  << [nome |-> "Calcio", quantita |-> 1000, unita |-> "mg"],
     [nome |-> "Ferro", quantita |-> IF profile.gender = "femmina" THEN 18 ELSE 8, unita |-> "mg"],
     [nome |-> "Potassio", quantita |-> 3500, unita |-> "mg"],
     [nome |-> "Sodio", quantita |-> 2300, unita |-> "mg"],
     [nome |-> "Vitamina C", quantita |-> 90, unita |-> "mg"],
     [nome |-> "Vitamina A", quantita |-> 900, unita |-> "mcg"],
     [nome |-> "Vitamina D", quantita |-> 15, unita |-> "mcg"] >>

\* OnboardingWizard calculateDailyGoals
calculateDailyGoals(tdee, goal, profile) ==
  LET calorieTarget == IF goal = "perdere_peso" THEN JsSub(tdee, Num500)
                       ELSE IF goal = "aumentare_massa" THEN JsAdd(tdee, Num500)
                       ELSE tdee
      proteine == JsDiv(JsMul(calorieTarget, Dec0_30), 4)
      grassi == JsDiv(JsMul(calorieTarget, Dec0_25), 9)
      carboidrati == JsDiv(JsMul(calorieTarget, Dec0_45), 4)
  IN [calorie |-> MathRound(calorieTarget),
      proteine |-> MathRound(proteine),
      carboidrati |-> MathRound(carboidrati),
      grassi |-> MathRound(grassi),
      micronutrienti |-> micronutrientGoals(profile)]

\* ProfileView calculateTDEE.multipliers: 1.2, 1.375, 1.55, 1.725, 1.9
profileMultipliers ==
  [sedentario |-> FromHex(<<1, 3, 3, 3, 3, 3, 3, 3, 3, 3, 3, 3, 3, 3>>, 0 - 52),
   leggero |-> FromHex(<<1, 6, 0, 0, 0, 0, 0, 0, 0, 0, 0, 0, 0, 0>>, 0 - 52),
   moderato |-> FromHex(<<1, 8, 12, 12, 12, 12, 12, 12, 12, 12, 12, 12, 12, 13>>, 0 - 52),
   attivo |-> FromHex(<<1, 11, 9, 9, 9, 9, 9, 9, 9, 9, 9, 9, 9, 10>>, 0 - 52),
   molto_attivo |-> FromHex(<<1, 14, 6, 6, 6, 6, 6, 6, 6, 6, 6, 6, 6, 6>>, 0 - 52)]

\* ProfileView calculateBMR: the Harris-Benedict estimate, added left to right
profileCalculateBMR(profile) ==
  IF profile.gender = "maschio"
  THEN JsSub(JsAdd(JsAdd(Dec88_362,
                         JsMul(Dec13_397,
                               FromInt(profile.initialWeight))),
                   JsMul(Dec4_799,
                         FromInt(profile.height))),
             JsMul(Dec5_677,
                   FromInt(profile.age)))
  ELSE JsSub(JsAdd(JsAdd(Dec447_593,
                         JsMul(Dec9_247,
                               FromInt(profile.initialWeight))),
                   JsMul(Dec3_098,
                         FromInt(profile.height))),
             JsMul(Dec4_330,
                   FromInt(profile.age)))

\* ProfileView calculateTDEE
profileCalculateTDEE(bmr, activityLevel) ==
  JsMul(bmr, profileMultipliers[activityLevel])

\* ProfileView calculateDailyGoals.micronutrientGoals
profileMicronutrientGoals(profile) ==
  << [nome |-> "Calcio", quantita |-> 1000, unita |-> "mg"],
     [nome |-> "Ferro", quantita |-> IF profile.gender = "femmina" THEN 18 ELSE 8, unita |-> "mg"],
     [nome |-> "Potassio", quantita |-> 3500, unita |-> "mg"],
     [nome |-> "Sodio", quantita |-> 2300, unita |-> "mg"],
     [nome |-> "Vitamina C", quantita |-> 90, unita |-> "mg"],
     [nome |-> "Vitamina A", quantita |-> 900, unita |-> "mcg"],
     [nome |-> "Vitamina D", quantita |-> 15, unita |-> "mcg"] >>

\* ProfileView calculateDailyGoals
profileCalculateDailyGoals(tdee, goal, profile) ==
  LET calorieTarget == IF goal = "perdere_peso" THEN JsSub(tdee, Num500)
                       ELSE IF goal = "aumentare_massa" THEN JsAdd(tdee, Num500)
                       ELSE tdee
      proteine == JsDiv(JsMul(calorieTarget, Dec0_30), 4)
      grassi == JsDiv(JsMul(calorieTarget, Dec0_25), 9)
      carboidrati == JsDiv(JsMul(calorieTarget, Dec0_45), 4)
  IN [calorie |-> MathRound(calorieTarget),
      proteine |-> MathRound(proteine),
      carboidrati |-> MathRound(carboidrati),
      grassi |-> MathRound(grassi),
      micronutrienti |-> profileMicronutrientGoals(profile)]

\* OnboardingWizard.handleSubmit: the new user of the wizard's profile, goal and
\* activity level (preferences and calibrationStartDate are not modelled)
handleSubmit(form) ==
  [profile |-> form.profile,
   goal |-> form.goal,
   activityLevel |-> form.activityLevel,
   dailyGoals |-> calculateDailyGoals(calculateTDEE(calculateBMR(form.profile), form.activityLevel),
                                      form.goal, form.profile),
   onboardingComplete |-> TRUE]

\* mutant of handleSave: the edited form is stored with the goals it came with
handleSaveKeepGoals(formData) == formData

\* ProfileView.handleSave: {...formData, dailyGoals}
handleSave(formData) ==
  [formData EXCEPT !.dailyGoals =
     profileCalculateDailyGoals(profileCalculateTDEE(profileCalculateBMR(formData.profile),
                                                     formData.activityLevel),
                                formData.goal, formData.profile)]

(***************************************************************************)
(* The environment: time zones of the device, instants of the clock, the   *)
(* estimates a meal analysis returns and the weights the user enters.      *)
(***************************************************************************)
UTC == [std |-> 0, dst |-> 0, dstAt |-> 0]

\* Europe/Rome: UTC+1, UTC+2 from 2024-03-31T01:00Z
Rome == [std |-> 1, dst |-> 2, dstAt |-> 19813 * 24 + 1]

\* America/Bogota: UTC-5 all year
Bogota == [std |-> 0 - 5, dst |-> 0 - 5, dstAt |-> 0]

TZSet == {UTC, Rome, Bogota}

DayHours == {0, 23}

ClockInstants == {(StartDay + d) * 24 + h : d \in 0..MaxDay, h \in DayHours}

Ferro == <<"F", "e", "r", "r", "o">>

ferro == <<"f", "e", "r", "r", "o">>

Zinco == <<"Z", "i", "n", "c", "o">>

\* the doubles nearest 0.1, 0.2 and 0.3
Tenth == FromHex(<<1, 9, 9, 9, 9, 9, 9, 9, 9, 9, 9, 9, 9, 10>>, 0 - 56)

TwoTenths == FromHex(<<1, 9, 9, 9, 9, 9, 9, 9, 9, 9, 9, 9, 9, 10>>, 0 - 55)

ThreeTenths == FromHex(<<1, 3, 3, 3, 3, 3, 3, 3, 3, 3, 3, 3, 3, 3>>, 0 - 54)

Micro(nome, q) == [nome |-> nome, quantita |-> FromInt(q), unita |-> "mg"]

Nutr(kcal, p, c, g, micros) ==
  [calorie |-> kcal, proteine |-> p, carboidrati |-> c, grassi |-> g,
   micronutrienti |-> micros]

\* estimates of the meal analysis in a run of the application
MealInputs ==
  { Nutr(FromInt(500), FromInt(20), FromInt(60), FromInt(10), <<Micro(Ferro, 2)>>),
    Nutr(FromInt(700), FromInt(35), FromInt(80), FromInt(25), <<Micro(ferro, 3), Micro(Zinco, 1)>>) }

\* the weight given at onboarding
InitialWeights == {60}

\* the wizard's state with nothing but the weight entered: useState of
\* profile, goal and activityLevel
WizardForm(w) ==
  [profile |-> [name |-> "", age |-> 25, gender |-> "femmina", height |-> 165,
                initialWeight |-> w],
   goal |-> "mantenere_peso",
   activityLevel |-> "moderato"]

Genders == {"femmina", "maschio"}

Goals == {"perdere_peso", "mantenere_peso", "aumentare_massa"}

ActivityLevels == {"sedentario", "leggero", "moderato", "attivo", "molto_attivo"}

\* forms filled in with a name and positive numbers
ValidForms ==
  { [profile |-> [name |-> "Ada", age |-> 30, gender |-> g, height |-> h,
                  initialWeight |-> w],
     goal |-> goal,
     activityLevel |-> a] :
    g \in Genders, h \in {165, 180}, w \in {60, 80}, goal \in Goals, a \in ActivityLevels }

\* forms with the name left empty, and with the weight, the height or the age
\* field emptied (Number('') is 0)
InvalidForms ==
  { WizardForm(60),
    [WizardForm(0) EXCEPT !.profile.name = "Ada", !.profile.age = 30],
    [WizardForm(60) EXCEPT !.profile.name = "Ada", !.profile.age = 30, !.profile.height = 0],
    [WizardForm(60) EXCEPT !.profile.name = "Ada", !.profile.age = 0] }

GoalForms == ValidForms \cup InvalidForms

FormOf(u) == [profile |-> u.profile, goal |-> u.goal, activityLevel |-> u.activityLevel]

\* the fields in which two forms differ
Edited(f, g) ==
  {k \in {"name", "age", "gender", "height", "initialWeight"} : f.profile[k] # g.profile[k]}
  \cup {k \in {"goal", "activityLevel"} : f[k] # g[k]}

\* the forms of the profile view one save apart from the user u: at most one
\* field edited
SingleEdits(u) ==
  { [u EXCEPT !.profile = f.profile, !.goal = f.goal, !.activityLevel = f.activityLevel] :
    f \in {g \in GoalForms : Cardinality(Edited(FormOf(u), g)) <= 1} }

\* weights entered in the weight chart
WeightInputs == {60, 61}

\* texts of the number input of the weight chart: empty (also what the input
\* holds for anything that is not a number), zero, negative, positive
WeightTexts == {"", "0", "-5", "61", "62"}

\* parseFloat on those texts: nan for the empty text, else the number read
parseFloat(text) ==
  CASE text = "" -> [nan |-> TRUE, value |-> 0]
    [] text = "0" -> [nan |-> FALSE, value |-> 0]
    [] text = "-5" -> [nan |-> FALSE, value |-> 0 - 5]
    [] text = "61" -> [nan |-> FALSE, value |-> 61]
    [] text = "62" -> [nan |-> FALSE, value |-> 62]

isNaN(v) == v.nan

\* the forms the wizard is submitted with in the weight chart's scenarios:
\* a weight entered, and the weight field emptied (Number('') is 0)
WeightForms ==
  {WizardForm(60), [WizardForm(0) EXCEPT !.profile.name = "Ada", !.profile.age = 30]}

(***************************************************************************)
(* Persistence: JSON.stringify and JSON.parse on the three collections of  *)
(* App, and localStorage under its three keys.  A JSON text is modelled by *)
(* its parse tree: an object is the sequence of its members in the order   *)
(* of the keys, an array the sequence of its elements.                     *)
(***************************************************************************)
JsonNull == [json |-> "null", value |-> <<>>]

\* a property JSON.stringify leaves out
JsonOmitted == [json |-> "omitted", value |-> <<>>]

JsonString(s) == [json |-> "string", value |-> s]

JsonBoolean(b) == [json |-> "boolean", value |-> b]

\* an integer of the model (ages, heights, weights, daily goals)
JsonInteger(n) == [json |-> "number", value |-> n]

\* mutant of JsonValue: undefined is written as null
JsonValueNullForUndefined(v) ==
  IF IsNumber(v) THEN [json |-> "number", value |-> v]
  ELSE IF v = Undefined \/ v = NaN THEN JsonNull
  ELSE JsonString(v)

\* a value of a nutrient field: undefined is left out, NaN is written as
\* null, a string as a string, a double as the number that parses to it
JsonValue(v) ==
  IF IsNumber(v) THEN [json |-> "number", value |-> v]
  ELSE IF v = Undefined THEN JsonOmitted
  ELSE IF v = NaN THEN JsonNull
  ELSE JsonString(v)

\* the members of an object, those left out dropped
JsonObject(members) == SelectSeq(members, LAMBDA m : m.value.json # "omitted")

Member(key, value) == [key |-> key, value |-> value]

JsonArray(elements) == [json |-> "array", value |-> elements]

\* obj[key] of a parsed object: undefined for a key it does not have
JsonGet(obj, key) ==
  LET found == SelectSeq(obj.value, LAMBDA m : m.key = key)
  IN IF found = <<>> THEN JsonOmitted ELSE found[1].value

\* what JSON.parse yields for the value of a member read by the application:
\* undefined for a missing member, null for null
ParsedValue(j) ==
  IF j.json = "omitted" THEN Undefined
  ELSE IF j.json = "null" THEN <<"null">>
  ELSE IF j.json = "string" THEN AString
  ELSE j.value

\* a member the records of the model always carry
Parsed(j) == j.value

StringifyMicro(micro) ==
  [json |-> "object",
   value |-> JsonObject(<<Member("nome", JsonString(micro.nome)),
                          Member("quantita", JsonValue(micro.quantita)),
                          Member("unita", JsonString(micro.unita))>>)]

ParseMicro(j) ==
  [nome |-> Parsed(JsonGet(j, "nome")),
   quantita |-> ParsedValue(JsonGet(j, "quantita")),
   unita |-> Parsed(JsonGet(j, "unita"))]

StringifyNutrients(n) ==
  [json |-> "object",
   value |-> JsonObject(<<Member("calorie", JsonValue(n.calorie)),
                          Member("proteine", JsonValue(n.proteine)),
                          Member("carboidrati", JsonValue(n.carboidrati)),
                          Member("grassi", JsonValue(n.grassi)),
                          Member("micronutrienti",
                                 JsonArray([k \in 1..Len(n.micronutrienti) |->
                                              StringifyMicro(n.micronutrienti[k])]))>>)]

ParseNutrients(j) ==
  LET micros == Parsed(JsonGet(j, "micronutrienti"))
  IN [calorie |-> ParsedValue(JsonGet(j, "calorie")),
      proteine |-> ParsedValue(JsonGet(j, "proteine")),
      carboidrati |-> ParsedValue(JsonGet(j, "carboidrati")),
      grassi |-> ParsedValue(JsonGet(j, "grassi")),
      micronutrienti |-> [k \in 1..Len(micros) |-> ParseMicro(micros[k])]]

StringifyMeal(meal) ==
  [json |-> "object",
   value |-> JsonObject(<<Member("id", JsonString(meal.id)),
                          Member("timestamp", JsonString(meal.timestamp)),
                          Member("nutrients", StringifyNutrients(meal.nutrients)),
                          Member("source", JsonString(meal.source))>>)]

ParseMeal(j) ==
  [id |-> Parsed(JsonGet(j, "id")),
   timestamp |-> Parsed(JsonGet(j, "timestamp")),
   nutrients |-> ParseNutrients(JsonGet(j, "nutrients")),
   source |-> Parsed(JsonGet(j, "source"))]

\* JSON.stringify(meals) and JSON.parse of it
StringifyMeals(ms) == JsonArray([k \in 1..Len(ms) |-> StringifyMeal(ms[k])])

ParseMeals(j) == [k \in 1..Len(j.value) |-> ParseMeal(j.value[k])]

\* JSON.stringify(weightHistory) and JSON.parse of it
StringifyWeightHistory(history) ==
  JsonArray([k \in 1..Len(history) |->
               [json |-> "object",
                value |-> JsonObject(<<Member("date", JsonString(history[k].date)),
                                       Member("weight", JsonInteger(history[k].weight))>>)]])

ParseWeightHistory(j) ==
  [k \in 1..Len(j.value) |->
     [date |-> Parsed(JsonGet(j.value[k], "date")),
      weight |-> Parsed(JsonGet(j.value[k], "weight"))]]

StringifyProfile(profile) ==
  [json |-> "object",
   value |-> JsonObject(<<Member("name", JsonString(profile.name)),
                          Member("age", JsonInteger(profile.age)),
                          Member("gender", JsonString(profile.gender)),
                          Member("height", JsonInteger(profile.height)),
                          Member("initialWeight", JsonInteger(profile.initialWeight))>>)]

ParseProfile(j) ==
  [name |-> Parsed(JsonGet(j, "name")),
   age |-> Parsed(JsonGet(j, "age")),
   gender |-> Parsed(JsonGet(j, "gender")),
   height |-> Parsed(JsonGet(j, "height")),
   initialWeight |-> Parsed(JsonGet(j, "initialWeight"))]

StringifyGoals(goals) ==
  [json |-> "object",
   value |-> JsonObject(<<Member("calorie", JsonInteger(goals.calorie)),
                          Member("proteine", JsonInteger(goals.proteine)),
                          Member("carboidrati", JsonInteger(goals.carboidrati)),
                          Member("grassi", JsonInteger(goals.grassi)),
                          Member("micronutrienti",
                                 JsonArray([k \in 1..Len(goals.micronutrienti) |->
                                   [json |-> "object",
                                    value |-> JsonObject(
                                      <<Member("nome", JsonString(goals.micronutrienti[k].nome)),
                                        Member("quantita", JsonInteger(goals.micronutrienti[k].quantita)),
                                        Member("unita", JsonString(goals.micronutrienti[k].unita))>>)]]))>>)]

ParseGoals(j) ==
  LET micros == Parsed(JsonGet(j, "micronutrienti"))
  IN [calorie |-> Parsed(JsonGet(j, "calorie")),
      proteine |-> Parsed(JsonGet(j, "proteine")),
      carboidrati |-> Parsed(JsonGet(j, "carboidrati")),
      grassi |-> Parsed(JsonGet(j, "grassi")),
      micronutrienti |-> [k \in 1..Len(micros) |->
                            [nome |-> Parsed(JsonGet(micros[k], "nome")),
                             quantita |-> Parsed(JsonGet(micros[k], "quantita")),
                             unita |-> Parsed(JsonGet(micros[k], "unita"))]]]

\* JSON.stringify(user) and JSON.parse of it
StringifyUser(u) ==
  [json |-> "object",
   value |-> JsonObject(<<Member("profile", StringifyProfile(u.profile)),
                          Member("goal", JsonString(u.goal)),
                          Member("activityLevel", JsonString(u.activityLevel)),
                          Member("dailyGoals", StringifyGoals(u.dailyGoals)),
                          Member("onboardingComplete", JsonBoolean(u.onboardingComplete))>>)]

ParseUser(j) ==
  [profile |-> ParseProfile(JsonGet(j, "profile")),
   goal |-> Parsed(JsonGet(j, "goal")),
   activityLevel |-> Parsed(JsonGet(j, "activityLevel")),
   dailyGoals |-> ParseGoals(JsonGet(j, "dailyGoals")),
   onboardingComplete |-> Parsed(JsonGet(j, "onboardingComplete"))]

\* localStorage: <<>> under a key that is not set, <<text>> under one that is
UserKey == "nutricoach_user"

MealsKey == "nutricoach_meals"

WeightHistoryKey == "nutricoach_weight_history"

\* App's effect on [user]: setItem, or removeItem for null
userEffect(store, u) ==
  [store EXCEPT ![UserKey] = IF u # <<>> THEN <<StringifyUser(u[1])>> ELSE <<>>]

\* App's effect on [meals]
mealsEffect(store, ms) == [store EXCEPT ![MealsKey] = <<StringifyMeals(ms)>>]

\* App's effect on [weightHistory]
weightHistoryEffect(store, history) ==
  [store EXCEPT ![WeightHistoryKey] = <<StringifyWeightHistory(history)>>]

\* localStorage after the three effects ran on the collections u, ms, history
StorageOf(u, ms, history) ==
  [key \in {UserKey, MealsKey, WeightHistoryKey} |->
     IF key = UserKey THEN (IF u # <<>> THEN <<StringifyUser(u[1])>> ELSE <<>>)
     ELSE IF key = MealsKey THEN <<StringifyMeals(ms)>>
     ELSE <<StringifyWeightHistory(history)>>]

\* the initialisers of App's three useState: getItem and JSON.parse of what
\* is there, null or [] for a key that is not set
loadUser(store) ==
  IF store[UserKey] # <<>> THEN <<ParseUser(store[UserKey][1])>> ELSE <<>>

loadMeals(store) ==
  IF store[MealsKey] # <<>> THEN ParseMeals(store[MealsKey][1]) ELSE <<>>

loadWeightHistory(store) ==
  IF store[WeightHistoryKey] # <<>> THEN ParseWeightHistory(store[WeightHistoryKey][1]) ELSE <<>>

(***************************************************************************)
(* The state: App's user, meals, weightHistory and currentView, the        *)
(* Dashboard's selected day and the values of its last render, the device  *)
(* clock and time zone.  user is <<>> for null and <<u>> for a user u.     *)
(***************************************************************************)
VARIABLES now, tz, user, meals, weightHistory, currentView, mealCount,
          currentDate, isToday, mealsForSelectedDay, mealsToday,
          totalIntakeForSelectedDay, weeklyData, logger, advice, chat, storage,
          weightForm, camera

vars == <<now, tz, user, meals, weightHistory, currentView, mealCount,
          currentDate, isToday, mealsForSelectedDay, mealsToday,
          totalIntakeForSelectedDay, weeklyData, logger, advice, chat, storage,
          weightForm, camera>>

\* the MealLogger of the Dashboard, the Dashboard's advice, the AICoachChat,
\* the form of the WeightHistoryChart, the camera of the logger's
\* BarcodeScanner and CameraView
uiVars == <<logger, advice, chat, weightForm, camera>>

appVars == <<user, meals, weightHistory, currentView, mealCount, storage>>

dashVars == <<currentDate, isToday, mealsForSelectedDay, mealsToday,
              totalIntakeForSelectedDay, weeklyData>>

\* the Dashboard renders no MealLogger (isMealLoggerOpen is false)
LoggerClosed == <<>>

\* the MealLogger as it opens.  image: an image is chosen; description: the
\* description is not blank; error and analysisResult: <<>> for null;
\* analyses and lookups: the requests of this logger that are in flight;
\* textAnalyses: the analyses among them that handleAnalyze started in the
\* text mode; resultMode: the mode in which the request that returned the
\* result held was started ("" for no result)
LoggerOpened ==
  <<[mode |-> "image", image |-> FALSE, description |-> FALSE, isLoading |-> FALSE,
     error |-> <<>>, analysisResult |-> <<>>, resultMode |-> "", analyses |-> 0,
     textAnalyses |-> 0, lookups |-> 0]>>

NoImageError == "Per favore, carica o scatta un'immagine del tuo pasto."

NoDescriptionError == "Per favore, descrivi il tuo pasto."

\* the message of the Error the two analyses throw ("Non e'" stands for the
\* accented spelling of the source)
AnalysisError == "Non e' stato possibile analizzare il pasto. Riprova."

\* the messages of a rejected analysis: the one of its catch (getAI, outside
\* the try, does not throw once App's effect has run startChat for the user
\* of the Dashboard)
AnalysisErrors == {AnalysisError}
NotFoundError == "Prodotto non trovato nel database. Prova a registrarlo tramite foto o testo."

\* what getAICoachAdvice returns when the request fails, and what the
\* Dashboard's effect sets when getAICoachAdvice itself rejects
AdviceFallbacks ==
  { "Non e' stato possibile caricare il consiglio in questo momento.",
    "Non e' stato possibile caricare il consiglio." }

\* texts of the advice the model returns
AdviceTexts == {"Ottimo inizio, continua cosi'!"}

\* the Dashboard's aiAdvice and isAdviceLoading when no Dashboard is rendered
\* or before its first effect.  request: <<>> or the arguments of the request
\* of this Dashboard issued last; latest: that request is in flight; older:
\* requests issued before it are in flight (how many is not counted);
\* heldFrom: the request whose answer aiAdvice holds ("none", "latest", or
\* "earlier" for a request issued before the last one)
NoAdvice ==
  [aiAdvice |-> "", isAdviceLoading |-> FALSE, request |-> <<>>, latest |-> FALSE,
   older |-> FALSE, heldFrom |-> "none"]

\* a request of the Dashboard is in flight
Pending(a) == a.latest \/ a.older

\* mutant of AdviceEffect: the request is made for no meals
AdviceEffectWithoutMeals(a, u, today) ==
  [a EXCEPT !.isAdviceLoading = TRUE,
            !.request = <<[user |-> u, mealsToday |-> <<>>]>>,
            !.older = a.latest \/ a.older,
            !.latest = TRUE,
            !.heldFrom = IF a.heldFrom = "none" THEN "none" ELSE "earlier"]

\* the Dashboard's effect on [mealsToday, user]: setIsAdviceLoading(true) and
\* getAICoachAdvice(user, mealsToday)
AdviceEffect(a, u, today) ==
  [a EXCEPT !.isAdviceLoading = TRUE,
            !.request = <<[user |-> u, mealsToday |-> today]>>,
            !.older = a.latest \/ a.older,
            !.latest = TRUE,
            !.heldFrom = IF a.heldFrom = "none" THEN "none" ELSE "earlier"]

\* the answer to a request in flight reaches the Dashboard: to the one
\* issued last, or to one issued before it, after which others issued before
\* it may still be in flight
AdviceAnswered(a, from, more) ==
  IF from = "latest"
  THEN [a EXCEPT !.latest = FALSE, !.heldFrom = "latest"]
  ELSE [a EXCEPT !.older = more, !.heldFrom = "earlier"]

\* the requests an answer can come from
Answerable(a) == {<<"latest", FALSE>> : x \in {y \in {1} : a.latest}}
                 \cup {<<"earlier", more>> : more \in {y \in BOOLEAN : a.older}}

\* what chatWithAICoach returns when sendMessage fails
ChatApology == "Mi dispiace, sto avendo qualche problema a connettermi. Riprova tra poco."

\* what the user types, blank input among it, and what the model replies
ChatInputs == {"", "  ", "ciao", "cosa mangio?"}

ChatReplies == {"Ciao!", "Una insalata."}

\* input.trim() is empty
Blank(input) == input \in {"", "  "}

\* no AICoachChat is rendered
NoChat == [messages |-> <<>>, isLoading |-> FALSE, sending |-> FALSE]

\* the AICoachChat after its first effect: the greeting of the user; sending:
\* the call of chatWithAICoach has not returned
ChatOpened(u) ==
  [messages |-> <<[role |-> "model", text |-> <<"Ciao", u.profile.name>>]>>,
   isLoading |-> FALSE, sending |-> FALSE]

\* the WeightHistoryChart as it mounts: useState(false), useState('')
WeightFormClosed == [isAdding |-> FALSE, newWeight |-> ""]

(***************************************************************************)
(* The camera of the MealLogger.  shown: the component that uses it, the   *)
(* BarcodeScanner (barcode mode, no result held; a browser with a          *)
(* BarcodeDetector) or the CameraView (showCamera), "none" for neither.    *)
(* request, stream and loop belong to the last run of that component's     *)
(* effect: its getUserMedia is pending, its stream is open, its detection  *)
(* loop has a frame scheduled ("frame") or awaits detect() ("detecting").  *)
(* What earlier runs of the effect left behind: late, the requests pending *)
(* of the component shown; orphans, those of components unmounted;         *)
(* lateDetects, the detect() calls awaited whose onScan reaches the        *)
(* MealLogger; orphanDetects, those of a MealLogger that was closed;       *)
(* strayLoops, the loops that scheduled a frame after their cleanup;       *)
(* openStreams, the streams open that no cleanup will stop.                *)
(***************************************************************************)
NoCamera ==
  [shown |-> "none", request |-> FALSE, stream |-> FALSE, loop |-> "none",
   late |-> 0, orphans |-> 0, lateDetects |-> 0, orphanDetects |-> 0,
   strayLoops |-> 0, openStreams |-> 0]

\* counted up to MaxLate
UpTo(n) == IF n > MaxLate THEN MaxLate ELSE n

\* the cleanup of the scan effect and of the CameraView's effect:
\* cancelAnimationFrame(animationFrameId) cancels the frame scheduled, the
\* stream is stopped if getUserMedia has resolved; a request that is pending
\* and a detect() that is awaited go on
EffectCleanup(c) ==
  [c EXCEPT !.request = FALSE,
            !.late = UpTo(@ + (IF c.request THEN 1 ELSE 0)),
            !.stream = FALSE,
            !.loop = "none",
            !.lateDetects = UpTo(@ + (IF c.loop = "detecting" THEN 1 ELSE 0))]

\* startScan and startCamera up to their await
EffectStart(c) == [c EXCEPT !.request = TRUE]

\* the component is unmounted: its cleanup runs and its videoRef is cleared
CameraUnmount(c) ==
  [EffectCleanup(c) EXCEPT !.shown = "none",
                           !.late = 0,
                           !.orphans = UpTo(@ + EffectCleanup(c).late)]

\* the MealLogger is unmounted with the component it shows: its setters do
\* nothing from then on
LoggerUnmount(c) ==
  LET d == IF c.shown = "none" THEN c ELSE CameraUnmount(c)
  IN  [d EXCEPT !.lateDetects = 0, !.orphanDetects = UpTo(@ + d.lateDetects)]

\* mode === 'barcode' && <BarcodeScanner .../> inside !analysisResult
ScannerOf(lg) ==
  /\ lg # <<>>
  /\ lg[1].mode = "barcode"
  /\ lg[1].analysisResult = <<>>

\* a render of the MealLogger lg (<<>> for none): onScan={handleBarcodeScan}
\* and onClose={() => setShowCamera(false)} are new functions, so the effect
\* of the component shown, which depends on them, is cleaned up and run again
CameraRender(c, lg) ==
  IF lg = <<>> THEN LoggerUnmount(c)
  ELSE IF c.shown = "view" THEN EffectStart(EffectCleanup(c))
  ELSE IF c.shown = "scanner"
  THEN (IF ScannerOf(lg) THEN EffectStart(EffectCleanup(c)) ELSE CameraUnmount(c))
  ELSE IF ScannerOf(lg) THEN EffectStart([c EXCEPT !.shown = "scanner"])
  ELSE c

\* App renders the Dashboard: a user who completed onboarding, dashboard view
DashboardShown(u, view) ==
  /\ u # <<>>
  /\ u[1].onboardingComplete
  /\ view = "dashboard"

Mounted == DashboardShown(user, currentView)

\* the Dashboard is not rendered: it holds no state
DashboardGone ==
  /\ currentDate' = 0
  /\ isToday' = FALSE
  /\ mealsForSelectedDay' = <<>>
  /\ mealsToday' = <<>>
  /\ totalIntakeForSelectedDay' = ZeroNutrients
  /\ weeklyData' = <<>>

\* a render of the Dashboard with meal list ms and selected day day; the weekly
\* series and today's meals are memoised on the meal list alone
DashboardRender(ms, day, mealsChanged) ==
  /\ currentDate' = day
  /\ isToday' = isSameDay(tz, day, now)
  /\ mealsForSelectedDay' = MealsOnDay(tz, ms, day)
  /\ mealsToday' = IF mealsChanged THEN MealsOnDay(tz, ms, now) ELSE mealsToday
  /\ totalIntakeForSelectedDay' = TotalIntake(MealsOnDay(tz, ms, day))
  /\ weeklyData' = IF mealsChanged THEN WeeklyData(tz, ms, now) ELSE weeklyData

\* a render of the Dashboard on a change of its own state, meal list and
\* selected day as they were: the memoised values are kept
DashboardRerender ==
  /\ isToday' = isSameDay(tz, currentDate, now)
  /\ UNCHANGED <<currentDate, mealsForSelectedDay, mealsToday, totalIntakeForSelectedDay,
                 weeklyData>>

\* the first render: useState(new Date())
DashboardMount(ms) == DashboardRender(ms, now, TRUE)

\* mutant of NextDayDisabled: the button is never disabled
NextDayNeverDisabled == FALSE

\* disabled={isToday} of the next-day button
NextDayDisabled == isToday

NoDashboard ==
  /\ currentDate = 0
  /\ isToday = FALSE
  /\ mealsForSelectedDay = <<>>
  /\ mealsToday = <<>>
  /\ totalIntakeForSelectedDay = ZeroNutrients
  /\ weeklyData = <<>>

Init ==
  /\ now \in {StartDay * 24 + h : h \in DayHours}
  /\ tz \in TZSet
  /\ user = <<>>
  /\ meals = <<>>
  /\ weightHistory = <<>>
  /\ currentView = "dashboard"
  /\ mealCount = 0
  /\ NoDashboard
  /\ logger = LoggerClosed
  /\ advice = NoAdvice
  /\ chat = NoChat
  /\ storage = StorageOf(<<>>, <<>>, <<>>)
  /\ weightForm = WeightFormClosed
  /\ camera = NoCamera

\* the device clock moves on
Tick ==
  /\ \E t \in ClockInstants : t > now /\ now' = t
  /\ UNCHANGED <<tz, appVars, dashVars, uiVars>>

\* App.handleOnboardingComplete, called by the wizard App shows without a user
OnboardingComplete(form) ==
  /\ ~(user # <<>> /\ user[1].onboardingComplete)
  /\ user' = <<handleSubmit(form)>>
  /\ weightHistory' = <<[date |-> DatePart(toISOString(now)),
                         weight |-> user'[1].profile.initialWeight]>>
  /\ currentView' = "dashboard"
  /\ DashboardMount(meals)
  /\ advice' = AdviceEffect(NoAdvice, user', mealsToday')
  /\ storage' = weightHistoryEffect(userEffect(storage, user'), weightHistory')
  /\ weightForm' = WeightFormClosed
  /\ UNCHANGED <<now, tz, meals, mealCount, logger, chat, camera>>

\* ProfileView.handleSave and App.handleUpdateUser, on the profile view
SaveProfile(formData) ==
  /\ user # <<>>
  /\ user[1].onboardingComplete
  /\ currentView = "profile"
  /\ user' = <<handleSave(formData)>>
  /\ storage' = userEffect(storage, user')
  /\ UNCHANGED <<now, tz, meals, weightHistory, currentView, mealCount, dashVars, uiVars>>

\* App.handleNavigate: the view shown is unmounted with what it holds, the
\* new one mounted and its effects run
Navigate(view) ==
  /\ user # <<>>
  /\ view # currentView
  /\ currentView' = view
  /\ IF view = "dashboard" THEN DashboardMount(meals) ELSE DashboardGone
  /\ logger' = LoggerClosed
  /\ advice' = IF view = "dashboard" THEN AdviceEffect(NoAdvice, user, mealsToday') ELSE NoAdvice
  /\ chat' = IF view = "chat" THEN ChatOpened(user[1]) ELSE NoChat
  /\ weightForm' = WeightFormClosed
  /\ camera' = CameraRender(camera, LoggerClosed)
  /\ UNCHANGED <<now, tz, user, meals, weightHistory, mealCount, storage>>

\* the new meal of handleSaveMeal with the estimate n, handed to
\* Dashboard.handleMealAdded and App.handleAddMeal: the meal is appended, the
\* Dashboard jumps to today and closes the logger, and its advice effect runs
\* on the new meal list
MealHandedOver(n, source) ==
  /\ Mounted
  /\ mealCount < MaxMeals
  /\ meals' = handleAddMeal(meals, [id |-> <<toISOString(now), mealCount>>,
                                    timestamp |-> toISOString(now),
                                    nutrients |-> n,
                                    source |-> source])
  /\ mealCount' = mealCount + 1
  /\ storage' = mealsEffect(storage, meals')
  /\ logger' = LoggerClosed
  /\ camera' = CameraRender(camera, LoggerClosed)
  /\ advice' = AdviceEffect(advice, user, MealsOnDay(tz, meals', now))

\* the hand-over and the render of the Dashboard that follows it
MealAdded(n, source) ==
  /\ MealHandedOver(n, source)
  /\ DashboardRender(meals', now, TRUE)
  /\ UNCHANGED <<now, tz, user, weightHistory, currentView, chat, weightForm>>

\* MealLogger.handleSaveMeal, Dashboard.handleMealAdded, App.handleAddMeal for
\* a meal logged in one go: the logger opened, the estimate n obtained in
\* the mode it opens in and saved with no other step in between
AddMeal(n) ==
  /\ logger = LoggerClosed
  /\ MealAdded(n, "image")

\* MealCard.handleDelete, App.handleDeleteMeal
DeleteMeal(mealId) ==
  /\ Mounted
  /\ \E k \in 1..Len(mealsForSelectedDay) : mealsForSelectedDay[k].id = mealId
  /\ LET kept == handleDeleteMeal(meals, mealId)
     IN /\ meals' = kept
        /\ DashboardRender(kept, currentDate, TRUE)
  /\ storage' = mealsEffect(storage, meals')
  /\ advice' = AdviceEffect(advice, user, mealsToday')
  /\ camera' = CameraRender(camera, logger)
  /\ UNCHANGED <<now, tz, user, weightHistory, currentView, mealCount, logger, chat,
                 weightForm>>

\* Dashboard.changeDay behind the two day buttons
ChangeDay(offset) ==
  /\ Mounted
  /\ offset = 1 => ~NextDayDisabled
  /\ offset = 0 - 1 => LocalDay(tz, currentDate) > StartDay - MaxBack
  /\ DashboardRender(meals, setDate(tz, currentDate, getDate(tz, currentDate) + offset), FALSE)
  /\ camera' = CameraRender(camera, logger)
  /\ UNCHANGED <<now, tz, appVars, logger, advice, chat, weightForm>>

\* WeightHistoryChart.handleAddWeight, App.handleAddWeight
AddWeight(w) ==
  /\ Mounted
  /\ weightHistory' = handleAddWeight(weightHistory, now, w)
  /\ storage' = weightHistoryEffect(storage, weightHistory')
  /\ DashboardRerender
  /\ camera' = CameraRender(camera, logger)
  /\ weightForm' = WeightFormClosed
  /\ UNCHANGED <<now, tz, user, meals, currentView, mealCount, logger, advice, chat>>

\* the estimate of a scanned product (per 100 g, no micronutrients)
Products == {Nutr(FromInt(250), FromInt(8), FromInt(30), FromInt(5), <<>>)}

\* a || b of JS on the values of a nutriment field: undefined, NaN, 0 and
\* the empty string are falsy
Truthy(v) == IF IsNumber(v) THEN v # NumZero ELSE v = AString
JsOr(a, b) == IF Truthy(a) THEN a ELSE b

\* n.energy_100g / 4.184 for the energies of the responses below
\* (1046 / 4.184 is the double 250)
KcalOfKj(energy) ==
  IF ~IsNumber(energy) THEN NaN
  ELSE IF energy = FromInt(1046) THEN FromInt(250)
  ELSE NumZero

\* what the body of fetchProductFromBarcode's try block comes to for a
\* response of the product database: fetch rejects, the response is not OK,
\* response.json() rejects, the data has status 0 or no product, reading a
\* field of a missing nutriments object throws, or the product is returned
fetchProductTry(response) ==
  IF response.rejected THEN [kind |-> "thrown", product |-> <<>>]
  ELSE IF ~response.ok THEN [kind |-> "null", product |-> <<>>]
  ELSE IF response.json = <<>> THEN [kind |-> "thrown", product |-> <<>>]
  ELSE IF response.json[1].status = 0 \/ response.json[1].product = <<>>
       THEN [kind |-> "null", product |-> <<>>]
  ELSE IF response.json[1].product[1].nutriments = <<>>
       THEN [kind |-> "thrown", product |-> <<>>]
  ELSE [kind |-> "product",
        product |-> <<[calorie |-> JsOr(response.json[1].product[1].nutriments[1].energy_kcal_100g,
                                      JsOr(KcalOfKj(response.json[1].product[1].nutriments[1].energy_100g),
                                           NumZero)),
                       proteine |-> JsOr(response.json[1].product[1].nutriments[1].proteins_100g, NumZero),
                       carboidrati |-> JsOr(response.json[1].product[1].nutriments[1].carbohydrates_100g, NumZero),
                       grassi |-> JsOr(response.json[1].product[1].nutriments[1].fat_100g, NumZero),
                       micronutrienti |-> <<>>,
                       name |-> IF response.json[1].product[1].product_name \in {<<>>, <<"">>}
                                THEN "Prodotto Sconosciuto"
                                ELSE response.json[1].product[1].product_name[1],
                       description |-> "Dati nutrizionali per 100g di prodotto, forniti da Open Food Facts.",
                       imageUrl |-> response.json[1].product[1].image_url]>>]

\* mutant of fetchProductFromBarcode: without its catch
fetchProductUncaught(response) == fetchProductTry(response)

\* fetchProductFromBarcode: the catch returns null for whatever was thrown
fetchProductFromBarcode(response) ==
  IF fetchProductTry(response).kind = "thrown" THEN [kind |-> "null", product |-> <<>>]
  ELSE fetchProductTry(response)

\* the nutriments of a product of the database (per 100 g)
Nutriments(kcal, energy, proteins, carbohydrates, fat) ==
  [energy_kcal_100g |-> kcal, energy_100g |-> energy, proteins_100g |-> proteins,
   carbohydrates_100g |-> carbohydrates, fat_100g |-> fat]

DatabaseProducts ==
  { [nutriments |-> ns, product_name |-> pn, image_url |-> url] :
      ns \in { <<>>,
               <<Nutriments(FromInt(250), FromInt(1046), FromInt(8), FromInt(30), FromInt(5))>>,
               <<Nutriments(Undefined, FromInt(1046), FromInt(8), Undefined, NumZero)>>,
               <<Nutriments(Undefined, Undefined, Undefined, Undefined, Undefined)>> },
      pn \in {<<>>, <<"">>, <<"Biscotti">>},
      url \in {<<>>, <<"https://images.openfoodfacts.org/1.jpg">>} }

\* what the product database answers, or fails to
Responses ==
  { [rejected |-> TRUE, ok |-> FALSE, json |-> <<>>],
    [rejected |-> FALSE, ok |-> FALSE, json |-> <<>>],
    [rejected |-> FALSE, ok |-> TRUE, json |-> <<>>] }
  \cup { [rejected |-> FALSE, ok |-> TRUE, json |-> <<[status |-> st, product |-> pr]>>] :
           st \in {0, 1}, pr \in {<<>>} \cup { <<p>> : p \in DatabaseProducts } }

\* the fields of a result that handleSaveMeal copies into the meal's nutrients
NutrientsOf(result) ==
  Nutr(result.calorie, result.proteine, result.carboidrati, result.grassi,
       result.micronutrienti)

LookupError == "Errore durante la ricerca del prodotto."

\* the state of the MealLogger that its setters hold
Rendered(l) == <<l.mode, l.image, l.description, l.isLoading, l.error, l.analysisResult>>

\* the frame of a step of the MealLogger, the camera being c when its
\* setters are called: its state is its own, the Dashboard is not rendered
\* again, and the logger is when a setter changed its state
LoggerStepWith(l, c) ==
  /\ logger' = <<l>>
  /\ camera' = IF Rendered(l) = Rendered(logger[1]) THEN c ELSE CameraRender(c, <<l>>)
  /\ UNCHANGED <<now, tz, appVars, dashVars, advice, chat, weightForm>>

LoggerStep(l) == LoggerStepWith(l, camera)

\* the CameraView covers the logger
Covered == camera.shown = "view"

InFlight(l) == l.analyses + l.lookups

\* the modes in which the analyses in flight were started
IssuedIn(l) ==
  {mode \in {"image", "text"} :
     IF mode = "text" THEN l.textAnalyses > 0 ELSE l.analyses > l.textAnalyses}

\* the analysis started in the mode issuedIn is no longer in flight
AnalysisReturned(l, issuedIn) ==
  [l EXCEPT !.analyses = @ - 1,
            !.textAnalyses = IF issuedIn = "text" THEN @ - 1 ELSE @]

\* the + button of the Dashboard: setIsMealLoggerOpen(true)
OpenLoggerClick ==
  /\ Mounted
  /\ logger = LoggerClosed
  /\ logger' = LoggerOpened

\* the click and the render of the Dashboard that follows it
OpenLogger ==
  /\ OpenLoggerClick
  /\ DashboardRerender
  /\ UNCHANGED <<now, tz, appVars, advice, chat, weightForm, camera>>

\* MealLogger onClose: setIsMealLoggerOpen(false); the requests of the logger
\* in flight return to an unmounted component
CloseLogger ==
  /\ Mounted
  /\ logger # LoggerClosed
  /\ ~Covered
  /\ logger' = LoggerClosed
  /\ camera' = CameraRender(camera, LoggerClosed)
  /\ DashboardRerender
  /\ UNCHANGED <<now, tz, appVars, advice, chat, weightForm>>

\* TabButton, rendered while no result is held: setMode(logMode)
SetMode(logMode) ==
  /\ Mounted
  /\ logger # LoggerClosed
  /\ logger[1].analysisResult = <<>>
  /\ logger[1].mode # logMode
  /\ ~Covered
  /\ LoggerStep([logger[1] EXCEPT !.mode = logMode])

\* handleImageChange and CameraView onCapture, in the image mode
ChooseImage ==
  /\ Mounted
  /\ logger # LoggerClosed
  /\ logger[1].analysisResult = <<>>
  /\ logger[1].mode = "image"
  /\ ~logger[1].image
  /\ ~Covered
  /\ LoggerStep([logger[1] EXCEPT !.image = TRUE])

\* the textarea: setDescription of a text that is not blank
Describe ==
  /\ Mounted
  /\ logger # LoggerClosed
  /\ logger[1].analysisResult = <<>>
  /\ ~logger[1].description
  /\ ~Covered
  /\ LoggerStep([logger[1] EXCEPT !.description = TRUE])

\* MealLogger.handleAnalyze up to its first await: the button is rendered in
\* the image and text modes while no result is held and is disabled while
\* isLoading; without the input of the mode it returns with an error
Analyze ==
  /\ Mounted
  /\ logger # LoggerClosed
  /\ logger[1].analysisResult = <<>>
  /\ logger[1].mode \in {"image", "text"}
  /\ ~logger[1].isLoading
  /\ ~Covered
  /\ InFlight(logger[1]) < MaxInFlight
  /\ LET l == logger[1]
     IN IF l.mode = "image" /\ ~l.image
        THEN LoggerStep([l EXCEPT !.isLoading = FALSE, !.error = <<NoImageError>>,
                                  !.analysisResult = <<>>, !.resultMode = ""])
        ELSE IF l.mode = "text" /\ ~l.description
        THEN LoggerStep([l EXCEPT !.isLoading = FALSE, !.error = <<NoDescriptionError>>,
                                  !.analysisResult = <<>>, !.resultMode = ""])
        ELSE LoggerStep([l EXCEPT !.isLoading = TRUE, !.error = <<>>,
                                  !.analysisResult = <<>>, !.resultMode = "",
                                  !.analyses = @ + 1,
                                  !.textAnalyses = IF l.mode = "text" THEN @ + 1 ELSE @])

\* handleAnalyze after the await, the analysis returned the estimate n:
\* setAnalysisResult(result), finally setIsLoading(false)
AnalysisDone(n) ==
  /\ Mounted
  /\ logger # LoggerClosed
  /\ \E issuedIn \in IssuedIn(logger[1]) :
       LoggerStep([AnalysisReturned(logger[1], issuedIn)
                     EXCEPT !.analysisResult = <<n>>, !.resultMode = issuedIn,
                            !.isLoading = FALSE])

\* mutant of AnalysisFailed: the loading flag is left as it is
AnalysisFailedStillLoading(message) ==
  /\ Mounted
  /\ logger # LoggerClosed
  /\ \E issuedIn \in IssuedIn(logger[1]) :
       LoggerStep([AnalysisReturned(logger[1], issuedIn) EXCEPT !.error = <<message>>])

\* handleAnalyze after the await, the analysis threw (the error of its catch
\* for a failed request or a response that does not parse): catch
\* setError(err.message), finally
\* setIsLoading(false)
AnalysisFailed(message) ==
  /\ Mounted
  /\ logger # LoggerClosed
  /\ \E issuedIn \in IssuedIn(logger[1]) :
       LoggerStep([AnalysisReturned(logger[1], issuedIn)
                     EXCEPT !.error = <<message>>, !.isLoading = FALSE])

\* MealLogger.handleBarcodeScan up to its await
handleBarcodeScan(l) ==
  [l EXCEPT !.isLoading = TRUE, !.error = <<>>, !.analysisResult = <<>>,
            !.resultMode = "", !.lookups = @ + 1]

\* the scan effect is scanning or about to
Scanning(c) == c.shown = "scanner" /\ (c.request \/ c.loop # "none")

\* BarcodeScanner onScan, the scanner being rendered in the barcode mode
\* while no result is held: the camera is granted if it was not yet, detect()
\* returns a barcode, onScan(barcodes[0].rawValue) and return
ScanBarcode ==
  /\ Mounted
  /\ logger # LoggerClosed
  /\ logger[1].analysisResult = <<>>
  /\ logger[1].mode = "barcode"
  /\ Scanning(camera)
  /\ InFlight(logger[1]) < MaxInFlight
  /\ LoggerStepWith(handleBarcodeScan(logger[1]),
                    [camera EXCEPT !.request = FALSE, !.stream = TRUE, !.loop = "none"])

\* handleBarcodeScan after the await, the product was found
LookupFound(product) ==
  /\ Mounted
  /\ logger # LoggerClosed
  /\ logger[1].lookups > 0
  /\ LoggerStep([logger[1] EXCEPT !.analysisResult = <<product>>,
                                  !.resultMode = "barcode", !.isLoading = FALSE,
                                  !.lookups = @ - 1])

\* handleBarcodeScan after the await, fetchProductFromBarcode returned null
LookupNotFound ==
  /\ Mounted
  /\ logger # LoggerClosed
  /\ logger[1].lookups > 0
  /\ LoggerStep([logger[1] EXCEPT !.error = <<NotFoundError>>, !.isLoading = FALSE,
                                  !.lookups = @ - 1])

\* handleBarcodeScan after the await, fetchProductFromBarcode threw: catch
\* setError, finally setIsLoading(false)
LookupThrew ==
  /\ Mounted
  /\ logger # LoggerClosed
  /\ logger[1].lookups > 0
  /\ LoggerStep([logger[1] EXCEPT !.error = <<LookupError>>, !.isLoading = FALSE,
                                  !.lookups = @ - 1])

\* handleBarcodeScan after the await, on the response of the product database
LookupReturned(response) ==
  IF fetchProductFromBarcode(response).kind = "product"
  THEN LookupFound(NutrientsOf(fetchProductFromBarcode(response).product[1]))
  ELSE IF fetchProductFromBarcode(response).kind = "null"
  THEN LookupNotFound
  ELSE LookupThrew

\* MealLogger.handleReset, the Indietro button of the result
ResetLogger ==
  /\ Mounted
  /\ logger # LoggerClosed
  /\ logger[1].analysisResult # <<>>
  /\ ~Covered
  /\ LoggerStep([logger[1] EXCEPT !.image = FALSE, !.description = FALSE,
                                  !.analysisResult = <<>>, !.resultMode = "",
                                  !.error = <<>>,
                                  !.mode = IF @ = "barcode" THEN "image" ELSE @])

\* MealLogger.handleSaveMeal, the Salva Pasto button of the result
SaveMealClick ==
  /\ logger # LoggerClosed
  /\ logger[1].analysisResult # <<>>
  /\ MealHandedOver(logger[1].analysisResult[1], logger[1].mode)

\* the click and the render of the Dashboard that follows it
SaveMeal ==
  /\ logger # LoggerClosed
  /\ logger[1].analysisResult # <<>>
  /\ MealAdded(logger[1].analysisResult[1], logger[1].mode)

\* a step of the WeightHistoryChart alone: isAdding and newWeight are its own
WeightStep(f) ==
  /\ weightForm' = f
  /\ UNCHANGED <<now, tz, appVars, dashVars, logger, advice, chat, camera>>

\* the AGGIUNGI button, shown while the form is closed: setIsAdding(true)
OpenWeightForm ==
  /\ Mounted
  /\ ~weightForm.isAdding
  /\ WeightStep([weightForm EXCEPT !.isAdding = TRUE])

\* onChange of the input: setNewWeight(e.target.value)
TypeWeight(text) ==
  /\ Mounted
  /\ weightForm.isAdding
  /\ text # weightForm.newWeight
  /\ WeightStep([weightForm EXCEPT !.newWeight = text])

\* the Annulla button: setIsAdding(false), the text is kept
CancelWeightForm ==
  /\ Mounted
  /\ weightForm.isAdding
  /\ WeightStep([weightForm EXCEPT !.isAdding = FALSE])

\* WeightHistoryChart.handleAddWeight, the Salva button: weightValue =
\* parseFloat(newWeight); if (!isNaN(weightValue) && weightValue > 0)
\* onAddWeight(weightValue), setIsAdding(false), setNewWeight('')
SubmitWeight ==
  /\ Mounted
  /\ weightForm.isAdding
  /\ LET weightValue == parseFloat(weightForm.newWeight)
     IN  IF ~isNaN(weightValue) /\ weightValue.value > 0
         THEN AddWeight(weightValue.value)
         ELSE UNCHANGED <<now, tz, appVars, dashVars, uiVars>>

\* a step of the BarcodeScanner or of the CameraView alone: no state of the
\* MealLogger changes
CameraStep(c) ==
  /\ camera' = c
  /\ UNCHANGED <<now, tz, appVars, dashVars, logger, advice, chat, weightForm>>

\* getUserMedia of the last run of the effect resolves: srcObject = stream;
\* the scanner calls detect(), which schedules a frame while the video is
\* not ready
CameraGranted ==
  /\ camera.request
  /\ CameraStep([camera EXCEPT !.request = FALSE,
                               !.stream = TRUE,
                               !.loop = IF camera.shown = "scanner" THEN "frame" ELSE "none"])

\* getUserMedia of the last run rejects: the scanner sets its own error, the
\* CameraView alerts and calls onClose, setShowCamera(false)
CameraDenied ==
  /\ camera.request
  /\ CameraStep(IF camera.shown = "view"
                THEN CameraUnmount([camera EXCEPT !.request = FALSE])
                ELSE [camera EXCEPT !.request = FALSE])

\* the frame scheduled fires: detect() awaits detector.detect(video)
FrameFired ==
  /\ camera.loop = "frame"
  /\ CameraStep([camera EXCEPT !.loop = "detecting"])

\* detector.detect returns no barcode: requestAnimationFrame(detect)
NothingDetected ==
  /\ camera.loop = "detecting"
  /\ CameraStep([camera EXCEPT !.loop = "frame"])

\* getUserMedia of a run that was cleaned up resolves, its component still
\* mounted: videoRef.current is set, the stream is played and, in the
\* scanner, detect() is called; the cleanup of that run has run already
LateGranted ==
  /\ camera.late > 0
  /\ CameraStep([camera EXCEPT !.late = @ - 1,
                               !.openStreams = UpTo(@ + 1),
                               !.strayLoops = UpTo(@ + (IF camera.shown = "scanner"
                                                        THEN 1 ELSE 0))])

\* getUserMedia of a component that was unmounted resolves: videoRef.current
\* is null, the stream is held by nothing that stops it
OrphanGranted ==
  /\ camera.orphans > 0
  /\ CameraStep([camera EXCEPT !.orphans = @ - 1, !.openStreams = UpTo(@ + 1)])

\* a detect() awaited at a cleanup returns no barcode: that loop schedules a
\* frame, which no cleanup cancels
StrayFrame ==
  /\ camera.lateDetects + camera.orphanDetects > 0
  /\ CameraStep(IF camera.lateDetects > 0
                THEN [camera EXCEPT !.lateDetects = @ - 1, !.strayLoops = UpTo(@ + 1)]
                ELSE [camera EXCEPT !.orphanDetects = @ - 1, !.strayLoops = UpTo(@ + 1)])

\* a detect() awaited at a cleanup returns a barcode: the onScan of that run,
\* the handleBarcodeScan of an earlier render, whose setters are those of the
\* MealLogger mounted
LateScan ==
  /\ Mounted
  /\ logger # LoggerClosed
  /\ ~Covered
  /\ camera.lateDetects > 0
  /\ InFlight(logger[1]) < MaxInFlight
  /\ LoggerStepWith(handleBarcodeScan(logger[1]), [camera EXCEPT !.lateDetects = @ - 1])

\* a detect() awaited when the MealLogger was closed returns a barcode: the
\* setters of an unmounted component do nothing
OrphanScan ==
  /\ camera.orphanDetects > 0
  /\ CameraStep([camera EXCEPT !.orphanDetects = @ - 1])

\* the camera button of the image mode: setShowCamera(true), the CameraView
\* mounts and its effect requests the camera
OpenCamera ==
  /\ Mounted
  /\ logger # LoggerClosed
  /\ logger[1].mode = "image"
  /\ logger[1].analysisResult = <<>>
  /\ camera.shown = "none"
  /\ CameraStep(EffectStart([camera EXCEPT !.shown = "view"]))

\* a click on the close button of the CameraView, setShowCamera(false): the
\* CameraView is rendered inside the backdrop of the MealLogger and stops no
\* propagation, so the click reaches onClick={onClose} of the backdrop too
CameraViewClose ==
  /\ Mounted
  /\ logger # LoggerClosed
  /\ camera.shown = "view"
  /\ logger' = LoggerClosed
  /\ camera' = CameraRender(camera, LoggerClosed)
  /\ DashboardRerender
  /\ UNCHANGED <<now, tz, appVars, advice, chat, weightForm>>

\* a request of getAICoachAdvice returned the text: .then setAiAdvice,
\* .finally setIsAdviceLoading(false); others may still be in flight
AdviceArrived(text) ==
  /\ Mounted
  /\ \E answer \in Answerable(advice) :
       advice' = [AdviceAnswered(advice, answer[1], answer[2])
                    EXCEPT !.aiAdvice = text, !.isAdviceLoading = FALSE]
  /\ DashboardRerender
  /\ camera' = CameraRender(camera, logger)
  /\ UNCHANGED <<now, tz, appVars, logger, chat, weightForm>>

\* mutant of AdviceFailed: the loading flag is left as it is
AdviceFailedStillLoading(fallback) ==
  /\ Mounted
  /\ \E answer \in Answerable(advice) :
       advice' = [AdviceAnswered(advice, answer[1], answer[2])
                    EXCEPT !.aiAdvice = fallback]
  /\ DashboardRerender
  /\ camera' = CameraRender(camera, logger)
  /\ UNCHANGED <<now, tz, appVars, logger, chat, weightForm>>

\* a request of getAICoachAdvice failed: its catch returns the fallback (or
\* the effect's .catch sets the other one), .finally setIsAdviceLoading(false)
AdviceFailed(fallback) ==
  /\ Mounted
  /\ \E answer \in Answerable(advice) :
       advice' = [AdviceAnswered(advice, answer[1], answer[2])
                    EXCEPT !.aiAdvice = fallback, !.isAdviceLoading = FALSE]
  /\ DashboardRerender
  /\ camera' = CameraRender(camera, logger)
  /\ UNCHANGED <<now, tz, appVars, logger, chat, weightForm>>

\* the frame of a step of the AICoachChat
ChatStep(c) ==
  /\ chat' = c
  /\ UNCHANGED <<now, tz, appVars, dashVars, logger, advice, weightForm, camera>>

\* the turns of the transcript: its user messages
Turns(messages) == Len(SelectSeq(messages, LAMBDA m : m.role = "user"))

\* AICoachChat.handleSend up to its await, from the send button or the Enter
\* key, both without effect while isLoading: nothing for a blank input
Send(input) ==
  /\ currentView = "chat"
  /\ user # <<>>
  /\ ~chat.isLoading
  /\ Turns(chat.messages) < MaxTurns
  /\ IF Blank(input)
     THEN UNCHANGED vars
     ELSE ChatStep([messages |-> Append(chat.messages, [role |-> "user", text |-> input]),
                    isLoading |-> TRUE, sending |-> TRUE])

\* mutant of ChatReturned: the loading flag is left as it is
ChatReturnedStillLoading(responseText) ==
  /\ currentView = "chat"
  /\ chat.sending
  /\ ChatStep([chat EXCEPT !.messages = Append(@, [role |-> "model", text |-> responseText]),
                           !.sending = FALSE])

\* handleSend after the await: chatWithAICoach returned the reply, or the
\* apology when sendMessage failed
ChatReturned(responseText) ==
  /\ currentView = "chat"
  /\ chat.sending
  /\ ChatStep([messages |-> Append(chat.messages, [role |-> "model", text |-> responseText]),
               isLoading |-> FALSE, sending |-> FALSE])

\* any other state change of the Dashboard (a modal opened, an advice arrived)
Rerender ==
  /\ Mounted
  /\ DashboardRerender
  /\ camera' = CameraRender(camera, logger)
  /\ UNCHANGED <<now, tz, appVars, logger, advice, chat, weightForm>>

Next ==
  \/ Tick
  \/ \E w \in InitialWeights : OnboardingComplete(WizardForm(w))
  \/ \E view \in {"dashboard", "chat", "profile"} : Navigate(view)
  \/ \E n \in MealInputs : AddMeal(n)
  \/ \E k \in 1..Len(meals) : DeleteMeal(meals[k].id)
  \/ \E offset \in {0 - 1, 1} : ChangeDay(offset)
  \/ \E w \in WeightInputs : AddWeight(w)
  \/ Rerender

Spec == Init /\ [][Next]_vars

(***************************************************************************)
(* Onboarding and the profile view: the wizard is submitted with any of the *)
(* forms, and the profile is saved with one field edited at a time.        *)
(***************************************************************************)
InitGoals ==
  /\ now = StartDay * 24
  /\ tz = UTC
  /\ user = <<>>
  /\ meals = <<>>
  /\ weightHistory = <<>>
  /\ currentView = "dashboard"
  /\ mealCount = 0
  /\ NoDashboard
  /\ logger = LoggerClosed
  /\ advice = NoAdvice
  /\ chat = NoChat
  /\ storage = StorageOf(<<>>, <<>>, <<>>)
  /\ weightForm = WeightFormClosed
  /\ camera = NoCamera

NextGoals ==
  \/ \E form \in GoalForms : OnboardingComplete(form)
  \/ \E view \in {"dashboard", "chat", "profile"} : Navigate(view)
  \/ \E formData \in (IF user = <<>> THEN {} ELSE SingleEdits(user[1])) : SaveProfile(formData)

SpecGoals == InitGoals /\ [][NextGoals]_vars

(***************************************************************************)
(* Logging a meal: the MealLogger is opened on the Dashboard, its requests  *)
(* return in any order, and the advice requests of the Dashboard return     *)
(* meanwhile.                                                              *)
(***************************************************************************)
\* the estimate an analysis returns
AnalysisEstimates ==
  {Nutr(FromInt(500), FromInt(20), FromInt(60), FromInt(10), <<Micro(Ferro, 2)>>)}

NextLogger ==
  \/ OnboardingComplete(WizardForm(60))
  \/ \E view \in {"dashboard", "chat"} : Navigate(view)
  \/ OpenLogger
  \/ CloseLogger
  \/ \E logMode \in {"image", "text", "barcode"} : SetMode(logMode)
  \/ ChooseImage
  \/ Describe
  \/ Analyze
  \/ \E n \in AnalysisEstimates : AnalysisDone(n)
  \/ \E message \in AnalysisErrors : AnalysisFailed(message)
  \/ ScanBarcode
  \/ \E product \in Products : LookupFound(product)
  \/ LookupNotFound
  \/ ResetLogger
  \/ (Len(meals) < MaxLogged /\ SaveMeal)
  \/ \E text \in AdviceTexts : AdviceArrived(text)
  \/ \E fallback \in AdviceFallbacks : AdviceFailed(fallback)

SpecLogger == InitGoals /\ [][NextLogger]_vars

(***************************************************************************)
(* Scanning products: the lookups of the MealLogger return with the       *)
(* answers of the product database, among the other requests of the logger. *)
(***************************************************************************)
NextLookup ==
  \/ OnboardingComplete(WizardForm(60))
  \/ OpenLogger
  \/ CloseLogger
  \/ \E logMode \in {"image", "text", "barcode"} : SetMode(logMode)
  \/ ChooseImage
  \/ Analyze
  \/ \E n \in AnalysisEstimates : AnalysisDone(n)
  \/ ScanBarcode
  \/ \E response \in Responses : LookupReturned(response)
  \/ ResetLogger
  \/ (Len(meals) < MaxLogged /\ SaveMeal)

SpecLookup == InitGoals /\ [][NextLookup]_vars

(***************************************************************************)
(* Persistence: the collections are changed on the Dashboard and on the    *)
(* profile view, and the application is loaded again at any moment.        *)
(***************************************************************************)
\* the page is loaded again: App's initialisers read localStorage, the
\* dashboard view is shown and the effects of the first render run
Reload ==
  /\ user' = loadUser(storage)
  /\ meals' = loadMeals(storage)
  /\ weightHistory' = loadWeightHistory(storage)
  /\ currentView' = "dashboard"
  /\ storage' = StorageOf(user', meals', weightHistory')
  /\ IF DashboardShown(user', "dashboard") THEN DashboardMount(meals') ELSE DashboardGone
  /\ logger' = LoggerClosed
  /\ advice' = IF DashboardShown(user', "dashboard")
               THEN AdviceEffect(NoAdvice, user', mealsToday')
               ELSE NoAdvice
  /\ chat' = NoChat
  /\ weightForm' = WeightFormClosed
  /\ camera' = NoCamera
  /\ UNCHANGED <<now, tz, mealCount>>

\* estimates of the analysis, one with a micronutrient without quantita
PersistInputs ==
  { Nutr(FromInt(700), FromInt(35), FromInt(80), FromInt(25), <<Micro(ferro, 3), Micro(Zinco, 1)>>),
    Nutr(FromInt(500), FromInt(20), FromInt(60), FromInt(10),
         <<[nome |-> Ferro, quantita |-> Undefined, unita |-> "mg"]>>) }

\* the profile saved with the name entered
PersistEdits(u) == {[u EXCEPT !.profile.name = "Ada"]}

NextPersist ==
  \/ Tick
  \/ OnboardingComplete(WizardForm(60))
  \/ \E view \in {"dashboard", "profile"} : Navigate(view)
  \/ \E formData \in (IF user = <<>> THEN {} ELSE PersistEdits(user[1])) : SaveProfile(formData)
  \/ \E n \in PersistInputs : AddMeal(n)
  \/ \E k \in 1..Len(meals) : DeleteMeal(meals[k].id)
  \/ AddWeight(61)
  \/ Reload

SpecPersist == InitGoals /\ [][NextPersist]_vars

(***************************************************************************)
(* The advice of the Dashboard: meals are logged and deleted, days are     *)
(* navigated and the clock moves on while the advice requests return in    *)
(* any order.                                                              *)
(***************************************************************************)
NextAdvice ==
  \/ Tick
  \/ OnboardingComplete(WizardForm(60))
  \/ \E view \in {"dashboard", "chat"} : Navigate(view)
  \/ \E n \in AnalysisEstimates : AddMeal(n)
  \/ \E k \in 1..Len(meals) : DeleteMeal(meals[k].id)
  \/ \E offset \in {0 - 1, 1} : ChangeDay(offset)
  \/ \E text \in AdviceTexts : AdviceArrived(text)
  \/ \E fallback \in AdviceFallbacks : AdviceFailed(fallback)

SpecAdvice == InitGoals /\ [][NextAdvice]_vars

(***************************************************************************)
(* The weight chart: the entry form is opened, filled in, cancelled and    *)
(* submitted on the Dashboard of a user who completed the wizard.          *)
(***************************************************************************)
NextWeight ==
  \/ Tick
  \/ \E form \in WeightForms : OnboardingComplete(form)
  \/ \E view \in {"dashboard", "profile"} : Navigate(view)
  \/ OpenWeightForm
  \/ \E text \in WeightTexts : TypeWeight(text)
  \/ CancelWeightForm
  \/ SubmitWeight

SpecWeight == InitGoals /\ [][NextWeight]_vars

(***************************************************************************)
(* The camera: the BarcodeScanner and the CameraView of the MealLogger are *)
(* mounted, rendered again and unmounted while the camera answers, the     *)
(* frames fire and the detector returns.                                   *)
(***************************************************************************)
NextScanner ==
  \/ OnboardingComplete(WizardForm(60))
  \/ OpenLogger
  \/ CloseLogger
  \/ \E logMode \in {"image", "barcode"} : SetMode(logMode)
  \/ ScanBarcode
  \/ \E product \in Products : LookupFound(product)
  \/ LookupNotFound
  \/ CameraGranted
  \/ CameraDenied
  \/ FrameFired
  \/ NothingDetected
  \/ LateGranted
  \/ OrphanGranted
  \/ StrayFrame
  \/ LateScan
  \/ OrphanScan
  \/ OpenCamera
  \/ CameraViewClose

SpecScanner == InitGoals /\ [][NextScanner]_vars

(***************************************************************************)
(* The conversation with the coach: messages are sent on the chat view     *)
(* and each request of chatWithAICoach returns, with the reply or with the *)
(* apology of its catch.                                                   *)
(***************************************************************************)
NextChat ==
  \/ OnboardingComplete(WizardForm(60))
  \/ \E view \in {"dashboard", "chat", "profile"} : Navigate(view)
  \/ \E input \in ChatInputs : Send(input)
  \/ \E responseText \in ChatReplies \cup {ChatApology} : ChatReturned(responseText)

\* the promise of sendMessage settles
ChatFairness == WF_vars(\E responseText \in ChatReplies \cup {ChatApology} : ChatReturned(responseText))

SpecChat == InitGoals /\ [][NextChat]_vars /\ ChatFairness

\* the user of the wizard left as it opens but for the name
DefaultUser == handleSubmit(WizardForm(60))

(***************************************************************************)
(* The Dashboard's first render on a given meal list: the application was  *)
(* left on the chat view and returns to the dashboard.                     *)
(***************************************************************************)
\* ages, in hours before the first render, of the meals of a week of use
MealAges == {0, 1, 72, 168}

\* instants of the first render: every hour of two days after the change of offset
WeekInstants == {(StartDay + d) * 24 + h : d \in 2..3, h \in 0..23}

MealAt(t, k, n) ==
  [id |-> <<toISOString(t), k>>, timestamp |-> toISOString(t), nutrients |-> n,
   source |-> "text"]

\* the meal lists of at most two meals logged by the instant t, oldest first
WeekMealLists(t) ==
  {<<>>}
  \cup {<<MealAt(t - a, 0, n)>> : a \in MealAges, n \in MealInputs}
  \cup {<<MealAt(t - a, 0, n), MealAt(t - b, 1, m)>> :
          <<a, b, n, m>> \in {x \in MealAges \X MealAges \X MealInputs \X MealInputs : x[1] >= x[2]}}

OnChatView(ms) ==
  /\ user = <<DefaultUser>>
  /\ meals = ms
  /\ mealCount = Len(ms)
  /\ currentView = "chat"
  /\ NoDashboard
  /\ logger = LoggerClosed
  /\ advice = NoAdvice
  /\ chat = ChatOpened(DefaultUser)
  /\ storage = StorageOf(user, meals, weightHistory)
  /\ weightForm = WeightFormClosed
  /\ camera = NoCamera

InitWeek ==
  /\ now \in WeekInstants
  /\ tz \in TZSet
  /\ weightHistory = <<[date |-> DatePart(toISOString(now - 168)), weight |-> 60]>>
  /\ \E ms \in WeekMealLists(now) : OnChatView(ms)

NextWeek == Navigate("dashboard")

SpecWeek == InitWeek /\ [][NextWeek]_vars

\* estimates with integer and with fractional quantities (0.1 is not a double:
\* the nearest double stands for it)
AggInputs ==
  { Nutr(FromInt(500), FromInt(20), FromInt(60), FromInt(10), <<Micro(Ferro, 2)>>),
    Nutr(FromInt(700), FromInt(35), FromInt(80), FromInt(25),
         <<Micro(ferro, 3), Micro(Zinco, 1), Micro(Ferro, 4)>>),
    Nutr(FromInt(42), FromInt(1), FromInt(10), Tenth, <<>>),
    Nutr(FromInt(52), FromInt(2), FromInt(12), TwoTenths, <<Micro(Zinco, 5)>>),
    Nutr(FromInt(61), FromInt(3), FromInt(14), ThreeTenths, <<>>) }

RECURSIVE AggLists(_)
AggLists(n) ==
  IF n = 0 THEN {<<>>}
  ELSE AggLists(n - 1)
       \cup {Append(l, x) : l \in {l2 \in AggLists(n - 1) : Len(l2) = n - 1}, x \in AggInputs}

\* the meals of one day: meal k of the list was logged as the k-th meal
DayMeals(l, t) == [k \in 1..Len(l) |-> MealAt(t, k - 1, l[k])]

InitAgg ==
  /\ now \in {(StartDay + 1) * 24 + 12}
  /\ tz \in TZSet
  /\ weightHistory = <<[date |-> DatePart(toISOString(now - 24)), weight |-> 60]>>
  /\ \E l \in AggLists(MaxAggMeals) : OnChatView(DayMeals(l, now))

NextAgg == Navigate("dashboard")

SpecAgg == InitAgg /\ [][NextAgg]_vars

\* estimates and stored records with a field that is missing or not a number:
\* an analysis whose micronutrient has no quantita or a quoted one
\* (parseAndValidateNutrients passes the list on as it is parsed), a product
\* whose proteins_100g is a quoted number (fetchProductFromBarcode passes it on),
\* a stored meal without calorie
MalformedInputs ==
  { Nutr(FromInt(500), FromInt(20), FromInt(60), FromInt(10),
         <<[nome |-> Ferro, quantita |-> Undefined, unita |-> "mg"]>>),
    Nutr(FromInt(500), FromInt(20), FromInt(60), FromInt(10),
         <<Micro(Zinco, 1), [nome |-> ferro, quantita |-> AString, unita |-> "mg"]>>),
    Nutr(FromInt(250), AString, FromInt(30), FromInt(5), <<>>),
    Nutr(Undefined, FromInt(20), FromInt(60), FromInt(10), <<>>) }

\* the lists of at most two meals of a day with a malformed one among them
MalformedLists ==
  LET inputs == MalformedInputs \cup MealInputs
  IN {<<x>> : x \in MalformedInputs}
     \cup {<<x, y>> : <<x, y>> \in (MalformedInputs \X inputs) \cup (inputs \X MalformedInputs)}

InitMalformed ==
  /\ now \in {(StartDay + 1) * 24 + 12}
  /\ tz \in TZSet
  /\ weightHistory = <<[date |-> DatePart(toISOString(now - 24)), weight |-> 60]>>
  /\ \E l \in MalformedLists : OnChatView(DayMeals(l, now))

NextMalformed == Navigate("dashboard")

SpecMalformed == InitMalformed /\ [][NextMalformed]_vars

(***************************************************************************)
(* Properties.                                                             *)
(***************************************************************************)
Today == DatePart(toISOString(now))

UniqueDates(history) ==
  \A i, j \in 1..Len(history) : i # j => history[i].date # history[j].date

\* C1: the weight history holds at most one entry per calendar day (the date
\* of its entries) after every step, and a weight added on a day that has an
\* entry takes that entry's place: same length, the new weight at that entry,
\* every other entry as it was.
C1_OnePerDay ==
  [][ /\ UniqueDates(weightHistory')
      /\ \A w \in WeightInputs :
           (AddWeight(w) /\ FindDate(weightHistory, Today) > 0) =>
             /\ Len(weightHistory') = Len(weightHistory)
             /\ \A k \in 1..Len(weightHistory) :
                  weightHistory'[k] = IF weightHistory[k].date = Today
                                      THEN [date |-> Today, weight |-> w]
                                      ELSE weightHistory[k] ]_vars

\* a weight was entered again on the day of onboarding and took the place of
\* the onboarding entry
C1_Witness ==
  /\ user # <<>>
  /\ Len(weightHistory) = 1
  /\ weightHistory[1].weight # user[1].profile.initialWeight

\* C2: the weight history is sorted ascending by date in every state.
C2_SortedByDate ==
  \A i, j \in 1..Len(weightHistory) :
     i < j => DateParse(weightHistory[i].date) <= DateParse(weightHistory[j].date)

\* a new day was appended after a same-day replacement
C2_Witness ==
  /\ Len(weightHistory) >= 2
  /\ user # <<>>
  /\ weightHistory[1].weight # user[1].profile.initialWeight

\* C3: the selected day of the dashboard is never later than the current day,
\* and while the selected day is today the next-day button is disabled.
C3_NeverPastToday ==
  Mounted =>
    /\ LocalDay(tz, currentDate) <= LocalDay(tz, now)
    /\ LocalDay(tz, currentDate) = LocalDay(tz, now) => NextDayDisabled

\* the selected day was moved forward onto today after the clock advanced: it
\* is today, at a time of day later than now
C3_Witness ==
  /\ Mounted
  /\ LocalDay(tz, currentDate) = LocalDay(tz, now)
  /\ currentDate > now

ShownWeight == latestWeight(weightHistory, user[1].profile.initialWeight)

\* the entries dated at or before the (UTC) date of the selected day
EntriesAsOf(history, day) ==
  SelectSeq(history, LAMBDA e : DateParse(e.date) <= DateParse(DatePart(toISOString(day))))

\* the weight of an entry of greatest date
WeightOfLatest(history) ==
  (CHOOSE e \in {history[k] : k \in 1..Len(history)} :
     \A k \in 1..Len(history) : DateParse(history[k].date) <= DateParse(e.date)).weight

C5_MealsOfSelectedDay ==
  Mounted =>
    mealsForSelectedDay =
      SelectSeq(meals, LAMBDA meal :
                  LocalDay(tz, DateParse(meal.timestamp)) = LocalDay(tz, currentDate))

\* two meals of the selected day are listed and a meal of another day is not
C5_Witness ==
  /\ Mounted
  /\ mealsForSelectedDay # <<>>
  /\ Len(meals) > Len(mealsForSelectedDay)
  /\ \E k \in 1..Len(meals) :
       /\ LocalDay(tz, DateParse(meals[k].timestamp)) = LocalDay(tz, currentDate)
       /\ DatePart(meals[k].timestamp) # DatePart(toISOString(currentDate))

\* the meals of ms whose timestamp is on the local day d (days since 1970-01-01)
MealsOfLocalDay(ms, d) ==
  SelectSeq(ms, LAMBDA meal : LocalDay(tz, DateParse(meal.timestamp)) = d)

\* the sum of the calories of the meals ms, added in list order
RECURSIVE SumCalories(_, _)
SumCalories(acc, ms) ==
  IF ms = <<>> THEN acc
  ELSE SumCalories(JsAdd(acc, Head(ms).nutrients.calorie), Tail(ms))

\* C6: the weekly series has exactly 7 entries, one per day from six days
\* before the reference day to the reference day, oldest first (entry i carries
\* the weekday of the local day 7-i days before today), also in a week with a
\* daylight-saving change, and the entry of a day without meals is 0.
C6_SevenDays ==
  Mounted =>
    /\ Len(weeklyData) = 7
    /\ \A i \in 1..Len(weeklyData) :
         /\ weeklyData[i].day = WeekdayLabel(tz, (LocalDay(tz, now) - (7 - i)) * 24 - tz.std)
         /\ MealsOfLocalDay(meals, LocalDay(tz, now) - (7 - i)) = <<>>
              => weeklyData[i].calories = NumZero

\* C7: each entry of the weekly series (the last one is today's, the one before
\* yesterday's, ..) is the sum of the calories of the meals the day index gives
\* for that day, and the last entry is the dashboard's calorie total for today.
C7_SumOfDayMeals ==
  Mounted =>
    /\ weeklyData # <<>>
    /\ \A i \in 1..Len(weeklyData) :
         weeklyData[i].calories =
           SumCalories(NumZero, MealsOnDay(tz, meals, WeekDate(tz, now, Len(weeklyData) - i)))
    /\ isSameDay(tz, currentDate, now) =>
         weeklyData[Len(weeklyData)].calories = totalIntakeForSelectedDay.calorie

\* the reorderings of the list s
Reorderings(s) ==
  {[i \in 1..Len(s) |-> s[p[i]]] : p \in Permutations(1..Len(s))}

\* the values of the field of the meals ms
FieldValues(ms, field) == [k \in 1..Len(ms) |-> ms[k].nutrients[field]]

\* the arithmetic sum of the numbers vals: no rounding
RECURSIVE ExactSum(_)
ExactSum(vals) ==
  IF vals = <<>> THEN NumZero ELSE AddExact(Head(vals), ExactSum(Tail(vals)))

\* the sum the additions of doubles give, from 0, in list order
RECURSIVE DoubleSum(_, _)
DoubleSum(acc, vals) ==
  IF vals = <<>> THEN acc ELSE DoubleSum(JsAdd(acc, Head(vals)), Tail(vals))

\* the lowest set bit of a number that is not zero
LowBit(v) == CHOOSE k \in 0..(NumBits - 1) : BitAt(v, k) = 1 /\ LowZero(v, k)

\* every sum of some of vals is a double: the values are multiples of one power
\* of two 2^k and their sum is below 2^(k+53) (integers, halves, ..)
ExactlySummable(vals) ==
  LET S == {k \in 1..Len(vals) : vals[k] # NumZero}
      low == CHOOSE b \in {LowBit(vals[k]) : k \in S} :
               \A k \in S : b <= LowBit(vals[k])
  IN S = {} \/ BitLen(ExactSum(vals)) - low <= MantissaBits

MacroFields == {"calorie", "proteine", "carboidrati", "grassi"}

\* C8 as stated: for every list of meals the four totals are the same for every
\* reordering of the list, and each is the arithmetic sum of its field, unrounded.
C8_OrderInvariantExactSum ==
  Mounted =>
    \A field \in MacroFields :
       /\ totalIntakeForSelectedDay[field] = ExactSum(FieldValues(mealsForSelectedDay, field))
       /\ \A r \in Reorderings(mealsForSelectedDay) :
            TotalIntake(r)[field] = totalIntakeForSelectedDay[field]

\* C8 amended: each total is the sum the additions of doubles give from 0 in
\* list order, each addition rounded to the nearest double and nothing else
\* rounded; when the values of a field are exactly summable the total is their
\* arithmetic sum and is the same for every reordering of the list.
C8_DoubleSumInListOrder ==
  Mounted =>
    \A field \in MacroFields :
       /\ totalIntakeForSelectedDay[field] =
            DoubleSum(NumZero, FieldValues(mealsForSelectedDay, field))
       /\ ExactlySummable(FieldValues(mealsForSelectedDay, field)) =>
            /\ totalIntakeForSelectedDay[field] =
                 ExactSum(FieldValues(mealsForSelectedDay, field))
            /\ \A r \in Reorderings(mealsForSelectedDay) :
                 TotalIntake(r)[field] = totalIntakeForSelectedDay[field]

\* three meals were aggregated whose fat values are not exactly summable, their
\* total is not the arithmetic sum, and the reverse order gives another total
C8_Witness ==
  /\ Mounted
  /\ Len(mealsForSelectedDay) = 3
  /\ ExactlySummable(FieldValues(mealsForSelectedDay, "calorie"))
  /\ ~ExactlySummable(FieldValues(mealsForSelectedDay, "grassi"))
  /\ totalIntakeForSelectedDay.grassi # ExactSum(FieldValues(mealsForSelectedDay, "grassi"))
  /\ TotalIntake(<<mealsForSelectedDay[3], mealsForSelectedDay[2], mealsForSelectedDay[1]>>).grassi
       # totalIntakeForSelectedDay.grassi

\* C9: the aggregation of an empty meal list (a selected day without meals) is
\* calorie, protein, carbohydrate and fat 0 and an empty micronutrient list.
C9_EmptyIsZero ==
  (Mounted /\ mealsForSelectedDay = <<>>) =>
    totalIntakeForSelectedDay =
      [calorie |-> FromInt(0), proteine |-> FromInt(0), carboidrati |-> FromInt(0),
       grassi |-> FromInt(0), micronutrienti |-> <<>>]

\* a day without meals is selected while meals of another day are logged
C9_Witness ==
  /\ Mounted
  /\ meals # <<>>
  /\ mealsForSelectedDay = <<>>
  /\ totalIntakeForSelectedDay.micronutrienti = <<>>

\* the micronutrient entries of the meals ms, in the order they are met
RECURSIVE FlatMicros(_)
FlatMicros(ms) ==
  IF ms = <<>> THEN <<>>
  ELSE (IF HasMicro(Head(ms).nutrients) THEN Head(ms).nutrients.micronutrienti ELSE <<>>)
       \o FlatMicros(Tail(ms))

\* the entries of list whose name is `nome` up to case
SameName(list, nome) ==
  SelectSeq(list, LAMBDA m : toLowerCase(m.nome) = toLowerCase(nome))

\* the first position in list of the name `nome` up to case
FirstSeen(list, nome) ==
  CHOOSE k \in 1..Len(list) :
    /\ toLowerCase(list[k].nome) = toLowerCase(nome)
    /\ \A j \in 1..(k - 1) : toLowerCase(list[j].nome) # toLowerCase(nome)

Quantities(list) == [k \in 1..Len(list) |-> list[k].quantita]

\* C10: the aggregated micronutrient list has exactly one entry per name up to
\* case, the quantity of an entry is the sum of the quantities of all input
\* entries of that name up to case (of one meal and of several), and the
\* entries are in the order their names are first met in the meal sequence.
C10_MergedByFoldedName ==
  Mounted =>
    LET out == totalIntakeForSelectedDay.micronutrienti
        flat == FlatMicros(mealsForSelectedDay)
    IN /\ \A i, j \in 1..Len(out) :
            i # j => toLowerCase(out[i].nome) # toLowerCase(out[j].nome)
       /\ {toLowerCase(out[i].nome) : i \in 1..Len(out)}
            = {toLowerCase(flat[k].nome) : k \in 1..Len(flat)}
       /\ \A i \in 1..Len(out) :
            out[i].quantita = ExactSum(Quantities(SameName(flat, out[i].nome)))
       /\ \A i, j \in 1..Len(out) :
            i < j => FirstSeen(flat, out[i].nome) < FirstSeen(flat, out[j].nome)

\* a name was met written in two ways, twice in one meal and again in another
\* meal, and became one entry before the entry of a name met later
C10_Witness ==
  /\ Mounted
  /\ Len(mealsForSelectedDay) >= 2
  /\ LET out == totalIntakeForSelectedDay.micronutrienti
         flat == FlatMicros(mealsForSelectedDay)
     IN /\ Len(out) = 2
        /\ Len(SameName(flat, out[1].nome)) >= 3
        /\ \E k \in 1..Len(flat) :
             flat[k].nome # out[1].nome /\ toLowerCase(flat[k].nome) = toLowerCase(out[1].nome)
        /\ \E k \in 1..Len(mealsForSelectedDay) :
             Len(SameName(mealsForSelectedDay[k].nutrients.micronutrienti, out[1].nome)) >= 2

(***************************************************************************)
(* The daily goals of the stored user.                                     *)
(***************************************************************************)
\* the onboarding computation on the profile, goal and activity level of u
GoalsOf(u) ==
  calculateDailyGoals(calculateTDEE(calculateBMR(u.profile), u.activityLevel), u.goal, u.profile)

\* the profile view's computation on the profile, goal and activity level of u
ProfileGoalsOf(u) ==
  profileCalculateDailyGoals(profileCalculateTDEE(profileCalculateBMR(u.profile), u.activityLevel),
                             u.goal, u.profile)

\* C11: after any sequence of onboarding completions and profile saves, the
\* dailyGoals of the stored user is, as a whole record (calorie, the three
\* macros and the micronutrient table), the goal computation applied to the
\* stored profile, goal and activity level, and the profile view's
\* computation gives what the onboarding computation gives on them.
C11_GoalsOfStoredProfile ==
  user # <<>> =>
    /\ user[1].dailyGoals = GoalsOf(user[1])
    /\ ProfileGoalsOf(user[1]) = GoalsOf(user[1])

\* a profile save stored a weight and a goal other than the ones of the
\* onboarding, and with them other goals than the wizard's
C11_Witness ==
  /\ user # <<>>
  /\ currentView = "profile"
  /\ weightHistory[1].weight = 60
  /\ user[1].profile.initialWeight = 80
  /\ user[1].goal = "aumentare_massa"
  /\ user[1].dailyGoals # DefaultUser.dailyGoals
  /\ user[1].dailyGoals = ProfileGoalsOf(user[1])

\* C12: the targets stored for the profile {female, 30 years, 165 cm, 60 kg}
\* with the goal maintain and the activity level moderate are 2145 kcal,
\* 161 g of protein, 60 g of fat and 241 g of carbohydrates.
C12_ExampleTargets ==
  (/\ user # <<>>
   /\ user[1].profile.gender = "femmina"
   /\ user[1].profile.age = 30
   /\ user[1].profile.height = 165
   /\ user[1].profile.initialWeight = 60
   /\ user[1].goal = "mantenere_peso"
   /\ user[1].activityLevel = "moderato")
  => /\ user[1].dailyGoals.calorie = 2145
     /\ user[1].dailyGoals.proteine = 161
     /\ user[1].dailyGoals.grassi = 60
     /\ user[1].dailyGoals.carboidrati = 241

\* the wizard was submitted with the profile of the example
C12_Witness ==
  /\ user # <<>>
  /\ currentView = "dashboard"
  /\ FormOf(user[1]) = [WizardForm(60) EXCEPT !.profile.name = "Ada", !.profile.age = 30]
  /\ weightHistory = <<[date |-> DatePart(toISOString(now)), weight |-> 60]>>
  /\ user[1].dailyGoals.calorie = 2145

\* a profile with a name and positive age, height and weight
ValidProfile(profile) ==
  /\ profile.name # ""
  /\ profile.age > 0
  /\ profile.height > 0
  /\ profile.initialWeight > 0

Abs(n) == IF n < 0 THEN 0 - n ELSE n

\* hundredths of a kcal between the energy of a component (grams times
\* kcalPerGram) and its share (percent) of the calorie target
ShareGap(grams, kcalPerGram, percent, calorie) ==
  Abs(100 * kcalPerGram * grams - percent * calorie)

\* C13 as stated: the energy of each of protein, fat and carbohydrates is
\* within 3 kcal of its share (30%, 25%, 45%) of the calorie target.
C13_EachWithinThreeKcal ==
  (user # <<>> /\ ValidProfile(user[1].profile)) =>
    LET g == user[1].dailyGoals
    IN /\ ShareGap(g.proteine, 4, 30, g.calorie) <= 300
       /\ ShareGap(g.grassi, 9, 25, g.calorie) <= 300
       /\ ShareGap(g.carboidrati, 4, 45, g.calorie) <= 300

\* C13: for every valid profile, goal and activity level the energy of the
\* protein and of the carbohydrates is within 3 kcal of its share (30%, 45%)
\* of the calorie target, the energy of the fat, whose grams weigh 9 kcal
\* each, is within 5 kcal of its share (25%), and the three energies add up
\* to the calorie target within 9 kcal.
C13_WithinRoundingOfGrams ==
  (user # <<>> /\ ValidProfile(user[1].profile)) =>
    LET g == user[1].dailyGoals
    IN /\ ShareGap(g.proteine, 4, 30, g.calorie) <= 300
       /\ ShareGap(g.grassi, 9, 25, g.calorie) <= 500
       /\ ShareGap(g.carboidrati, 4, 45, g.calorie) <= 300
       /\ Abs(4 * g.proteine + 9 * g.grassi + 4 * g.carboidrati - g.calorie) <= 9

\* the goals saved on the profile view for a valid profile have a fat energy
\* more than 3 kcal from a quarter of the calorie target
C13_Witness ==
  /\ user # <<>>
  /\ ValidProfile(user[1].profile)
  /\ currentView = "profile"
  /\ weightHistory[1].weight # user[1].profile.initialWeight
  /\ ShareGap(user[1].dailyGoals.grassi, 9, 25, user[1].dailyGoals.calorie) > 300

\* the integer nearest num / den, a half goes up
RoundRatio(num, den) == (2 * num + den) \div (2 * den)

\* the goals of u's profile and activity level with the goal maintain
MaintainGoalsOf(u) == GoalsOf([u EXCEPT !.goal = "mantenere_peso"])

\* the stored calorie target against the maintain target of the same profile
\* and activity level, which is the rounded TDEE
CalorieShift(u) ==
  /\ MaintainGoalsOf(u).calorie
       = MathRound(calculateTDEE(calculateBMR(u.profile), u.activityLevel))
  /\ u.goal = "perdere_peso" => u.dailyGoals.calorie = MaintainGoalsOf(u).calorie - 500
  /\ u.goal = "aumentare_massa" => u.dailyGoals.calorie = MaintainGoalsOf(u).calorie + 500
  /\ u.goal = "mantenere_peso" => u.dailyGoals.calorie = MaintainGoalsOf(u).calorie

\* C14 as stated: the calorie target is the maintain target moved by 500 kcal
\* and the macros are the rounded 30%/4, 25%/9 and 45%/4 of that target.
C14_MacrosOfStoredTarget ==
  user # <<>> =>
    LET g == user[1].dailyGoals
    IN /\ CalorieShift(user[1])
       /\ g.proteine = RoundRatio(30 * g.calorie, 400)
       /\ g.grassi = RoundRatio(25 * g.calorie, 900)
       /\ g.carboidrati = RoundRatio(45 * g.calorie, 400)

\* C14: the calorie target of the goal lose is 500 kcal below and the one of
\* the goal gain 500 kcal above the maintain target of the same profile and
\* activity level, which is the rounded TDEE; each macro is within 1 g of
\* the rounded share (30%/4, 25%/9, 45%/4) of that stored target, being the
\* rounded share of the target before its rounding; and the macros follow the
\* adjusted target, not the TDEE: against the maintain goals they are 37 or
\* 38 g of protein, 13 or 14 g of fat and 56 or 57 g of carbohydrates lower
\* for lose and higher for gain.
C14_MacrosOfAdjustedTarget ==
  user # <<>> =>
    LET g == user[1].dailyGoals
        m == MaintainGoalsOf(user[1])
        sign == IF user[1].goal = "perdere_peso" THEN 0 - 1 ELSE 1
    IN /\ CalorieShift(user[1])
       /\ Abs(g.proteine - RoundRatio(30 * g.calorie, 400)) <= 1
       /\ Abs(g.grassi - RoundRatio(25 * g.calorie, 900)) <= 1
       /\ Abs(g.carboidrati - RoundRatio(45 * g.calorie, 400)) <= 1
       /\ user[1].goal # "mantenere_peso" =>
            /\ sign * (g.proteine - m.proteine) \in {37, 38}
            /\ sign * (g.grassi - m.grassi) \in {13, 14}
            /\ sign * (g.carboidrati - m.carboidrati) \in {56, 57}

\* a user with the goal lose whose carbohydrates are not the rounded share of
\* the stored calorie target
C14_Witness ==
  /\ user # <<>>
  /\ user[1].goal = "perdere_peso"
  /\ user[1].dailyGoals.calorie = MaintainGoalsOf(user[1]).calorie - 500
  /\ user[1].dailyGoals.carboidrati
       # RoundRatio(45 * user[1].dailyGoals.calorie, 400)

\* the reference table of the micronutrient targets
ReferenceTable(iron) ==
  << [nome |-> "Calcio", quantita |-> 1000, unita |-> "mg"],
     [nome |-> "Ferro", quantita |-> iron, unita |-> "mg"],
     [nome |-> "Potassio", quantita |-> 3500, unita |-> "mg"],
     [nome |-> "Sodio", quantita |-> 2300, unita |-> "mg"],
     [nome |-> "Vitamina C", quantita |-> 90, unita |-> "mg"],
     [nome |-> "Vitamina A", quantita |-> 900, unita |-> "mcg"],
     [nome |-> "Vitamina D", quantita |-> 15, unita |-> "mcg"] >>

\* C15: the micronutrient targets of the stored user are the same seven
\* entries (calcium, iron, potassium, sodium, vitamin C, vitamin A, vitamin D)
\* in this order with the same quantities and units whatever the profile,
\* the goal and the activity level, but for iron: 18 for a female profile
\* and 8 for a male one.
C15_FixedTable ==
  user # <<>> =>
    /\ user[1].profile.gender = "femmina" =>
         user[1].dailyGoals.micronutrienti = ReferenceTable(18)
    /\ user[1].profile.gender = "maschio" =>
         user[1].dailyGoals.micronutrienti = ReferenceTable(8)
    /\ user[1].profile.gender \in Genders

\* a profile stored as male at onboarding was saved as female on the profile
\* view and has the iron target 18
C15_Witness ==
  /\ user # <<>>
  /\ currentView = "profile"
  /\ user[1].profile.gender = "femmina"
  /\ user[1].profile.initialWeight = 80
  /\ user[1].goal = "perdere_peso"
  /\ user[1].activityLevel = "attivo"
  /\ user[1].dailyGoals.micronutrienti[2].quantita = 18
  /\ Len(user[1].dailyGoals.micronutrienti) = 7

\* C17: a submit of the wizard or a save of the profile view with an empty
\* name or with an age, a height or a weight that is empty or zero stores
\* nothing, so that the stored user, when there is one, has a valid profile.
C17_InvalidNotStored ==
  user # <<>> => ValidProfile(user[1].profile)

\* a nutrient value with zero in the place of what is not a number
ZeroIfInvalid(v) == IF IsNumber(v) THEN v ELSE NumZero

\* the meals ms with zero in the place of every missing or non-numeric
\* nutrient field
AsZero(ms) ==
  [k \in 1..Len(ms) |->
     [ms[k] EXCEPT !.nutrients =
        [calorie |-> ZeroIfInvalid(@.calorie),
         proteine |-> ZeroIfInvalid(@.proteine),
         carboidrati |-> ZeroIfInvalid(@.carboidrati),
         grassi |-> ZeroIfInvalid(@.grassi),
         micronutrienti |->
           [j \in 1..Len(@.micronutrienti) |->
              [@.micronutrienti[j] EXCEPT !.quantita = ZeroIfInvalid(@)]]]]]

\* C16: the totals of a day whose meals have a missing or non-numeric
\* calorie, protein, carbohydrate or fat field or micronutrient quantity are
\* numbers, and they are the totals of the same meals with zero in the place
\* of those fields.
C16_MalformedAsZero ==
  Mounted =>
    /\ IsNumber(totalIntakeForSelectedDay.calorie)
    /\ IsNumber(totalIntakeForSelectedDay.proteine)
    /\ IsNumber(totalIntakeForSelectedDay.carboidrati)
    /\ IsNumber(totalIntakeForSelectedDay.grassi)
    /\ \A k \in 1..Len(totalIntakeForSelectedDay.micronutrienti) :
         IsNumber(totalIntakeForSelectedDay.micronutrienti[k].quantita)
    /\ totalIntakeForSelectedDay = TotalIntake(AsZero(mealsForSelectedDay))

(***************************************************************************)
(* C18                                                                     *)
(***************************************************************************)
\* the step of a failed analysis
AnalysisFailure == \E message \in AnalysisErrors : AnalysisFailed(message)

\* the meal list grew by a meal with the estimate n
SavedFrom(n) ==
  /\ Len(meals') = Len(meals) + 1
  /\ SubSeq(meals', 1, Len(meals)) = meals
  /\ meals'[Len(meals')].nutrients = n

\* every change of the meal list of the logging run is the saving of the
\* result held, and a result is set only by a request that returns
SavedFromResultOnly ==
  /\ meals' # meals =>
       /\ logger # LoggerClosed
       /\ logger[1].analysisResult # <<>>
       /\ SavedFrom(logger[1].analysisResult[1])
  /\ (/\ logger' # LoggerClosed
      /\ logger'[1].analysisResult # <<>>
      /\ logger = LoggerClosed \/ logger'[1].analysisResult # logger[1].analysisResult) =>
       /\ logger # LoggerClosed
       /\ InFlight(logger'[1]) = InFlight(logger[1]) - 1
       /\ logger'[1].analysisResult[1] \in AnalysisEstimates \cup Products

\* C18 as stated: when an analysis fails the meal list is unchanged, no
\* analysis result is held, the loading flag is cleared and an error message
\* is set, and a meal is saved only from a completed result
C18_NoResultAfterFailure ==
  [][ /\ AnalysisFailure =>
           /\ meals' = meals
           /\ logger'[1].analysisResult = <<>>
           /\ ~logger'[1].isLoading
           /\ logger'[1].error # <<>>
      /\ SavedFromResultOnly ]_vars

\* C18: a failed analysis changes neither the meal list nor the result held
\* (one is held when another request of the logger returned it meanwhile),
\* clears the loading flag and sets its error message; the meal list changes
\* only by saving the result held, and a result is set only by a request
\* that returns an estimate
C18_FailureSetsNoResult ==
  [][ /\ AnalysisFailure =>
           /\ meals' = meals
           /\ logger'[1].analysisResult = logger[1].analysisResult
           /\ ~logger'[1].isLoading
           /\ logger'[1].error # <<>>
           /\ logger'[1].error[1] \in AnalysisErrors
      /\ SavedFromResultOnly ]_vars

\* the only request of the logger has failed
C18_Witness ==
  /\ logger # LoggerClosed
  /\ logger[1].error # <<>>
  /\ logger[1].error[1] \in AnalysisErrors
  /\ logger[1].analysisResult = <<>>
  /\ ~logger[1].isLoading
  /\ InFlight(logger[1]) = 0
  /\ meals = <<>>

(***************************************************************************)
(* C19                                                                     *)
(***************************************************************************)
\* the step of a failed advice request
AdviceFailure == \E fallback \in AdviceFallbacks : AdviceFailed(fallback)

\* the advice request of the Dashboard: pending, succeeded, failed
AdviceState ==
  IF advice.isAdviceLoading THEN "pending"
  ELSE IF advice.aiAdvice \in AdviceFallbacks THEN "failed"
  ELSE IF advice.aiAdvice \in AdviceTexts THEN "succeeded"
  ELSE "none"

\* each control of meal logging works whenever it is rendered, whatever the
\* advice request: the + button, the analysis, the scan, the saving (the
\* handlers up to the render of the Dashboard, which nothing can prevent)
LoggingPossible ==
  /\ logger = LoggerClosed => ENABLED OpenLoggerClick
  /\ logger # LoggerClosed =>
       LET l == logger[1]
       IN /\ (/\ l.analysisResult = <<>>
              /\ l.mode \in {"image", "text"}
              /\ ~l.isLoading
              /\ InFlight(l) < MaxInFlight) => ENABLED Analyze
          /\ (/\ l.analysisResult = <<>>
              /\ l.mode = "barcode"
              /\ Scanning(camera)
              /\ InFlight(l) < MaxInFlight) => ENABLED ScanBarcode
          /\ (l.analysisResult # <<>> /\ mealCount < MaxMeals) => ENABLED SaveMealClick

\* C19: a failed advice request shows one of the static fallback strings and
\* clears the advice loading flag without touching the logger or the meals,
\* the loading flag is set only while a request is in flight, and on the
\* Dashboard the controls of meal logging work in every state of the advice
\* request
C19_AdviceNeverBlocksLogging ==
  /\ [](Mounted =>
          /\ AdviceState \in {"pending", "succeeded", "failed"}
          /\ advice.isAdviceLoading => Pending(advice)
          /\ LoggingPossible)
  /\ [][AdviceFailure =>
          /\ advice'.aiAdvice \in AdviceFallbacks
          /\ ~advice'.isAdviceLoading
          /\ logger' = logger
          /\ meals' = meals]_vars

\* the advice request made for a logged meal has failed, and the logger
\* holds the result of the next meal
C19_Witness ==
  /\ Mounted
  /\ AdviceState = "failed"
  /\ ~Pending(advice)
  /\ Len(meals) = 1
  /\ logger # LoggerClosed
  /\ logger[1].analysisResult # <<>>

(***************************************************************************)
(* C20                                                                     *)
(***************************************************************************)
\* the transcript after the greeting: user and model messages in turn, the
\* user's never blank, the model's a reply or the apology
InTurn(messages) ==
  /\ Len(messages) >= 1
  /\ messages[1].role = "model"
  /\ \A i \in 2..Len(messages) :
       IF i % 2 = 0
       THEN messages[i].role = "user" /\ ~Blank(messages[i].text)
       ELSE /\ messages[i].role = "model"
            /\ messages[i].text \in ChatReplies \cup {ChatApology}

\* the last message is the user's: a turn is in flight
TurnInFlight(messages) == messages[Len(messages)].role = "user"

\* the chat view is shown, before and after the step
ChatStays == currentView = "chat" /\ currentView' = "chat"

\* C20: on the chat view the transcript is the greeting followed by user and
\* model messages in turn, and the loading flag is set exactly while the
\* last message is the user's; every step of the chat appends one message,
\* the user's with the loading flag set, or the model's (a reply or the
\* apology) with the loading flag cleared; while a turn is in flight no send
\* is accepted, and the loading flag is cleared in the end
C20_OneReplyPerTurn ==
  /\ [](currentView = "chat" =>
          /\ InTurn(chat.messages)
          /\ chat.isLoading <=> TurnInFlight(chat.messages)
          /\ chat.isLoading <=> chat.sending
          /\ chat.isLoading => \A input \in ChatInputs : ~ENABLED Send(input))
  /\ [][(ChatStays /\ chat' # chat) =>
          /\ Len(chat'.messages) = Len(chat.messages) + 1
          /\ SubSeq(chat'.messages, 1, Len(chat.messages)) = chat.messages
          /\ chat'.isLoading = ~chat.isLoading]_vars
  /\ (chat.isLoading ~> ~chat.isLoading)

\* two turns are over, the first with the apology and the second with a
\* reply
C20_Witness ==
  /\ currentView = "chat"
  /\ Len(chat.messages) = 5
  /\ chat.messages[3].text = ChatApology
  /\ chat.messages[5].text \in ChatReplies
  /\ ~chat.isLoading

(***************************************************************************)
(* C21                                                                     *)
(***************************************************************************)
\* the responses for which there is no product to return
NoProduct(response) ==
  \/ response.rejected
  \/ ~response.ok
  \/ response.json = <<>>
  \/ response.json[1].status = 0
  \/ response.json[1].product = <<>>
  \/ response.json[1].product[1].nutriments = <<>>

\* a nutrient record per 100 g with a display name and an optional image
IsProductRecord(product) ==
  /\ DOMAIN product = {"calorie", "proteine", "carboidrati", "grassi", "micronutrienti",
                       "name", "description", "imageUrl"}
  /\ \A f \in MacroFields : product[f] # Undefined /\ product[f] # NaN
  /\ product.micronutrienti = <<>>
  /\ product.name # ""
  /\ Len(product.imageUrl) <= 1

\* the lookup of every response completes with null or with a product record
LookupCompletes ==
  \A response \in Responses :
    LET found == fetchProductFromBarcode(response)
    IN /\ found.kind \in {"null", "product"}
       /\ found.kind = "null" <=> NoProduct(response)
       /\ found.kind = "null" => found.product = <<>>
       /\ found.kind = "product" =>
            /\ Len(found.product) = 1
            /\ IsProductRecord(found.product[1])

\* the step of a lookup that found nothing
LookupFailure == \E response \in Responses : NoProduct(response) /\ LookupReturned(response)

\* C21 as stated: every lookup completes with a product record or null, never
\* with a thrown error, and when it is null no analysis result is held and
\* the meal list is unchanged
C21_NoResultWhenNotFound ==
  /\ []LookupCompletes
  /\ [][LookupFailure =>
          /\ meals' = meals
          /\ logger'[1].analysisResult = <<>>]_vars

\* C21: every lookup completes with a product record or null, never with a
\* thrown error; when it is null the meal list and the result held are as
\* they were (a result is held when another request of the logger returned
\* it meanwhile), the loading flag is cleared and the not-found message set
C21_NotFoundSetsNoResult ==
  /\ []LookupCompletes
  /\ [][LookupFailure =>
          /\ meals' = meals
          /\ logger'[1].analysisResult = logger[1].analysisResult
          /\ ~logger'[1].isLoading
          /\ logger'[1].error = <<NotFoundError>>]_vars

\* the only request of the logger was a lookup that found nothing
C21_Witness ==
  /\ logger # LoggerClosed
  /\ logger[1].error = <<NotFoundError>>
  /\ logger[1].analysisResult = <<>>
  /\ ~logger[1].isLoading
  /\ InFlight(logger[1]) = 0
  /\ meals = <<>>

\* C22: after every step the text under each of the three keys is the
\* JSON of the whole collection in memory (no text under the user's key for
\* no user), and loading the three keys again yields exactly the user, the
\* meals and the weight history in memory.
C22_StorageMirrorsCollections ==
  /\ storage = StorageOf(user, meals, weightHistory)
  /\ loadUser(storage) = user
  /\ loadMeals(storage) = meals
  /\ loadWeightHistory(storage) = weightHistory

\* a user with an edited profile, a meal list after a deletion that holds a
\* meal with a micronutrient without quantita, and two weights, all loaded
\* from what is stored
C22_Witness ==
  /\ user # <<>>
  /\ user[1].profile.name = "Ada"
  /\ Len(meals) = 1
  /\ mealCount = 2
  /\ meals[1].nutrients.micronutrienti # <<>>
  /\ meals[1].nutrients.micronutrienti[1].quantita = Undefined
  /\ Len(weightHistory) = 2
  /\ storage[MealsKey] = <<StringifyMeals(meals)>>
  /\ loadMeals(storage) = meals
\* the list ms without its k-th element
Without(ms, k) == SubSeq(ms, 1, k - 1) \o SubSeq(ms, k + 1, Len(ms))

\* the ids a meal of the run can have, those of deleted meals among them
MealIds == {<<toISOString(t), k>> : t \in ClockInstants, k \in 0..MaxMeals}

IdsOf(ms) == {ms[k].id : k \in 1..Len(ms)}

\* a step that makes the list longer appends one meal with a new id and the
\* estimate handed over, a step that makes it shorter drops one meal, and
\* both keep the other meals as they were, in their order
AddAndDeleteFrame ==
  /\ Len(meals') > Len(meals) =>
        /\ Len(meals') = Len(meals) + 1
        /\ SubSeq(meals', 1, Len(meals)) = meals
        /\ meals'[Len(meals')].id \notin IdsOf(meals)
        /\ meals'[Len(meals')].timestamp = toISOString(now)
        /\ meals'[Len(meals')].nutrients \in PersistInputs
  /\ Len(meals') < Len(meals) =>
        \E k \in 1..Len(meals) :
          /\ meals' = Without(meals, k)
          /\ meals[k].id \notin IdsOf(meals')
  /\ Len(meals') = Len(meals) => meals' = meals

\* deleting an id that no meal of the list has yields the list itself
DeleteOfAbsentId ==
  \A mealId \in MealIds \ IdsOf(meals) : handleDeleteMeal(meals, mealId) = meals

\* C23: adding a meal appends exactly that meal and deleting by id removes
\* exactly the meal with that id, the other meals and their order kept;
\* deleting an id that is not in the list changes nothing.
C23_AddAndDeleteTouchOneMeal == []DeleteOfAbsentId /\ [][AddAndDeleteFrame]_vars

\* the first of two meals logged at the same instant was deleted, the second
\* is still there
C23_Witness ==
  /\ Len(meals) = 1
  /\ mealCount = 2
  /\ meals[1].id = <<toISOString(now), 1>>
  /\ handleDeleteMeal(meals, <<toISOString(now), 0>>) = meals
\* a step of the two day buttons
DayNavigated == \E offset \in {0 - 1, 1} : ChangeDay(offset)

\* C24: the request issued last was made for the user and for the meals of
\* today the Dashboard holds, every request is made for the meals whose
\* local day is the day of the clock when it is issued, whatever day is
\* selected, and a step of the day buttons leaves the advice, its loading
\* flag and the requests as they are.
C24_AdviceForTodayOnly ==
  /\ [](Mounted => advice.request = <<[user |-> user, mealsToday |-> mealsToday]>>)
  /\ [][(advice'.request # advice.request /\ advice'.request # <<>>) =>
          advice'.request[1] = [user |-> user', mealsToday |-> MealsOnDay(tz, meals', now')]]_vars
  /\ [][DayNavigated => advice' = advice]_vars

\* the day before is selected and shows no meal, the request issued last
\* was made for the meal of today and its answer is shown
C24_Witness ==
  /\ Mounted
  /\ ~isToday
  /\ mealsForSelectedDay = <<>>
  /\ advice.request[1].mealsToday # <<>>
  /\ advice.heldFrom = "latest"
  /\ advice.aiAdvice \in AdviceTexts

\* C26 as stated: once every advice request of the Dashboard has returned,
\* the advice shown is the answer to the request issued last.
C26_LatestAnswerHeld ==
  (Mounted /\ ~Pending(advice) /\ advice.heldFrom # "none") => advice.heldFrom = "latest"
\* C27 as stated: the meal saved from the logger carries as its source the
\* mode in which the request that produced its estimate was started.
C27_SourceIsModeOfRequest ==
  [][SaveMeal => meals'[Len(meals')].source = logger[1].resultMode]_vars
\* C28: on the Dashboard, the run of the reducer that gave the totals shown
\* left every micronutrient object of the day's meals as it was, and one
\* more run over the same meals leaves them so again and returns the same
\* totals, which are the totals shown.
C28_AggregationKeepsMeals ==
  Mounted =>
    LET before == MicroObjects(mealsForSelectedDay)
        first == AggregateObjects(before, Len(before))
        second == AggregateObjects(first.heap, Len(before))
    IN /\ SubSeq(first.heap, 1, Len(before)) = before
       /\ TotalsOf(first) = totalIntakeForSelectedDay.micronutrienti
       /\ SubSeq(second.heap, 1, Len(before)) = before
       /\ TotalsOf(second) = TotalsOf(first)
       /\ TotalIntake(mealsForSelectedDay) = totalIntakeForSelectedDay

\* the micronutrients of two meals of the day were merged: four entries
\* under two names, one of them met three times
C28_Witness ==
  /\ Mounted
  /\ Len(mealsForSelectedDay) = 2
  /\ Len(MicroObjects(mealsForSelectedDay)) = 4
  /\ Len(totalIntakeForSelectedDay.micronutrienti) = 2
  /\ totalIntakeForSelectedDay.micronutrienti[1].quantita = FromInt(9)

\* C25 as stated: a step in which the scanner shown detects a barcode and
\* calls onScan leaves that scanner neither requesting the camera nor
\* running its detection loop, the MealLogger rendered again or not.
C25_ScanningStopsAfterDetection ==
  [][ScanBarcode => ~Scanning(camera')]_vars

\* C29 as stated: no stream is open that no cleanup will stop, and no
\* detection loop has scheduled a frame after the cleanup of its effect.
C29_ClosedCameraIsReleased ==
  /\ camera.openStreams = 0
  /\ camera.strayLoops = 0

\* the text parses to a positive number
PositiveText(text) == ~isNaN(parseFloat(text)) /\ parseFloat(text).value > 0

\* C30 as stated: a submit of a text that is not a number or not greater
\* than 0 leaves the weight history as it is and the form open, and every
\* entry of the stored weight history has a positive weight.
C30_OnlyPositiveWeightsStored ==
  /\ [][(SubmitWeight /\ ~PositiveText(weightForm.newWeight)) =>
          (weightHistory' = weightHistory /\ weightForm'.isAdding)]_vars
  /\ [](\A k \in 1..Len(weightHistory) : weightHistory[k].weight > 0)
====
